---- MODULE Spec2Model ----
(***************************************************************************)
(* pdf-coordinates: the annotation store of App.tsx, the canvas handlers   *)
(* of PdfCanvas.tsx and the label geometry of pdfModifier.ts.              *)
(*                                                                         *)
(* Numbers.  Coordinates are JavaScript numbers.  The model keeps them as  *)
(* integers counted in grid steps of 1/Unit PDF point (Pt(n) is n points), *)
(* and draws every input on that grid, where the additions, subtractions   *)
(* and comparisons of the code are exact.  The zoom scale is kept as the   *)
(* double it is (1.0 + 0.2 + 0.2 + 0.2 is 1.5999999999999999), and a       *)
(* division by it is taken only when the double it gives is on the grid:   *)
(* a click or a move whose quotient is off the grid, and a click at a zoom *)
(* where rect.height / scale is off the grid, is not among the inputs of   *)
(* the model.                                                              *)
(***************************************************************************)
EXTENDS Integers, Sequences, FiniteSets, Bags, TLC

\* ------------------------------------------------------------------ bounds

\* Grid steps per PDF point.
Unit == 2
\* The most annotations the store holds in the model.
MaxAnnotations == 2
\* The most ids the id source hands out in one run of the model.
MaxIds == 3
\* The most handler runs (user events and completions of reads and parses) in
\* one run of the model; an export that was started runs to its end.
MaxSteps == 7

Pt(n) == n * Unit
Half == Unit \div 2

\* --------------------------------------------------------------- constants

NULL == "NULL"
\* selectedId when nothing is selected (ids are the numbers 1, 2, ...).
NoId == 0

BOTTOM_LEFT  == "BOTTOM_LEFT"
TOP_LEFT     == "TOP_LEFT"
TOP_RIGHT    == "TOP_RIGHT"
BOTTOM_RIGHT == "BOTTOM_RIGHT"
CoordinateOrigin == {BOTTOM_LEFT, TOP_LEFT, TOP_RIGHT, BOTTOM_RIGHT}

\* Math.max / Math.min / Math.abs.
Max(a, b) == IF a >= b THEN a ELSE b
Min(a, b) == IF a <= b THEN a ELSE b
Abs(a) == IF a >= 0 THEN a ELSE -a

\* ------------------------------------------------------- double precision

\* JavaScript numbers are IEEE 754 binary64.  A number of magnitude below
\* 2048 whose last bit is worth at least 2^-56 is held here as a sign and a
\* magnitude counted in units of 2^-56, in three limbs:
\* hi * 2^48 + mid * 2^24 + lo, with mid and lo below 2^24.
Limb == 2^24
Dbl(neg, hi, mid, lo) == [neg |-> neg, hi |-> hi, mid |-> mid, lo |-> lo]
Zero64 == Dbl(FALSE, 0, 0, 0)
IsZero64(u) == u.hi = 0 /\ u.mid = 0 /\ u.lo = 0
Neg64(u) == IF IsZero64(u) THEN u ELSE [u EXCEPT !.neg = ~u.neg]

\* |u| < |v| and |u| = |v|.
MagLess(u, v) ==
    \/ u.hi < v.hi
    \/ u.hi = v.hi /\ u.mid < v.mid
    \/ u.hi = v.hi /\ u.mid = v.mid /\ u.lo < v.lo
MagEqual(u, v) == u.hi = v.hi /\ u.mid = v.mid /\ u.lo = v.lo

\* |u| + |v| and, for |u| >= |v|, |u| - |v|, exactly, with the sign neg.
MagAdd(neg, u, v) ==
    LET lo == u.lo + v.lo
        mid == u.mid + v.mid + lo \div Limb
    IN Dbl(neg, u.hi + v.hi + mid \div Limb, mid % Limb, lo % Limb)
MagSub(neg, u, v) ==
    LET lo == u.lo - v.lo
        borrowLo == IF lo < 0 THEN 1 ELSE 0
        mid == u.mid - v.mid - borrowLo
        borrowMid == IF mid < 0 THEN 1 ELSE 0
    IN Dbl(neg, u.hi - v.hi - borrowMid, mid + borrowMid * Limb, lo + borrowLo * Limb)

\* The exact sum u + v.
ExactAdd(u, v) ==
    IF u.neg = v.neg THEN MagAdd(u.neg, u, v)
    ELSE IF MagEqual(u, v) THEN Zero64
    ELSE IF MagLess(u, v) THEN MagSub(v.neg, v, u)
    ELSE MagSub(u.neg, u, v)

\* The number of bits of a natural number.
RECURSIVE BitLen(_)
BitLen(n) == IF n = 0 THEN 0 ELSE 1 + BitLen(n \div 2)

\* The bits of the magnitude of u that a 53-bit significand cannot hold.
DroppedBits(u) == Max(0, BitLen(u.hi) - 5)

\* Rounding of an exact value to binary64: to nearest, ties to even.
Round53(u) ==
    LET s == DroppedBits(u)
        unit == 2^s
        q == u.lo \div unit
        rem == u.lo % unit
        up == 2 * rem > unit \/ (2 * rem = unit /\ q % 2 = 1)
        lo == (IF up THEN q + 1 ELSE q) * unit
        mid == u.mid + lo \div Limb
    IN IF s = 0 THEN u
       ELSE Dbl(u.neg, u.hi + mid \div Limb, mid % Limb, lo % Limb)

\* The JavaScript expressions u - v, and whether they are exact.
Sub64(u, v) == Round53(ExactAdd(u, Neg64(v)))
SubIsExact(u, v) == Round53(ExactAdd(u, Neg64(v))) = ExactAdd(u, Neg64(v))

\* u <= v.
LessEq64(u, v) ==
    LET d == ExactAdd(u, Neg64(v)) IN d.neg \/ IsZero64(d)

\* The unit in the last place of u, and |u - v| <= one such unit of w.
Ulp(u) == Dbl(FALSE, 0, 0, 2^DroppedBits(u))
WithinUlp(u, v, w) ==
    LET d == ExactAdd(u, Neg64(v)) IN ~MagLess(Ulp(w), d)

\* The documents a user can pick, each the sequence of its pages' sizes.
DocA == << [width |-> Pt(612), height |-> Pt(792)],
           [width |-> Pt(300), height |-> Pt(200)] >>
\* A one-page document with a small page.
DocS == << [width |-> Pt(100), height |-> Pt(40)] >>
\* A two-page document in double precision: Letter and A4.
DocF == << [width |-> Dbl(FALSE, 156672, 0, 0), height |-> Dbl(FALSE, 202752, 0, 0)],
           [width |-> Dbl(FALSE, 152391, 11408506, 14761984),
            height |-> Dbl(FALSE, 215523, 14092861, 7380992)] >>
Files == {"A"}
\* File.type of what the user picks in the file dialog.
FileTypes == {"application/pdf", "text/plain"}
DocPages(f) == IF f = "S" THEN DocS ELSE IF f = "F" THEN DocF ELSE DocA

\* saveAnnotatedPdf's styling constants and getLabelPositionStyle's estimates.
DOT_RADIUS == 3
CORNER_RADIUS == 3
TEXT_SIZE == 8
PADDING == 2
ESTIMATED_WIDTH == 110
ESTIMATED_HEIGHT == 30

\* Math.round (halves round up).
Round(v) == (2 * v + Unit) \div (2 * Unit)

\* ------------------------------------------------------------ zoom scale

\* The zoom scale is a double: 1.0, the 0.2 of a zoom step, and the limits
\* 0.5 and 3.0 of Math.max and Math.min.
ScaleOne == Dbl(FALSE, 256, 0, 0)
ScaleStep == Dbl(FALSE, 51, 3355443, 3355444)
ScaleMin == Dbl(FALSE, 128, 0, 0)
ScaleMax == Dbl(FALSE, 768, 0, 0)

\* The JavaScript expression u + v, and Math.max and Math.min of doubles.
Add64(u, v) == Round53(ExactAdd(u, v))
Max64(u, v) == IF LessEq64(v, u) THEN u ELSE v
Min64(u, v) == IF LessEq64(u, v) THEN u ELSE v

\* The integer n as a double.
Int64(n) == Dbl(n < 0, Abs(n) * 256, 0, 0)

\* s * k exactly, for a positive s and a natural k below 2^12: the limbs of
\* s are multiplied in halves of 12 bits.
MulSmall(s, k) ==
    LET h == 2^12
        p0 == (s.lo % h) * k
        p1 == (s.lo \div h) * k + p0 \div h
        p2 == (s.mid % h) * k + p1 \div h
        p3 == (s.mid \div h) * k + p2 \div h
    IN Dbl(FALSE, s.hi * k + p3 \div h,
           (p3 % h) * h + (p2 % h), (p1 % h) * h + (p0 % h))

\* d * 2^k in limbs, for a natural d below 2^16 and 24 <= k <= 54.
ShiftLeft(d, k) ==
    LET j == k - 24 IN
    IF j >= 24 THEN Dbl(FALSE, d * 2^(j - 24), 0, 0)
    ELSE Dbl(FALSE, d \div 2^(24 - j), (d % 2^(24 - j)) * 2^j, 0)

\* The double a / s is the h-th multiple of one half, for a double a >= 0
\* and a natural h >= 1: the exact quotient is nearer to h / 2 than to the
\* doubles next to it, which are one unit in the last place of h / 2 away
\* (half of that below a power of two).
QuotientIsHalves(a, s, h) ==
    \E d \in { ExactAdd(MulSmall(s, h), Neg64(MagAdd(FALSE, a, a))) } :
        LET below == ~d.neg /\ ~IsZero64(d)
            powerOfTwo == h = 2^(BitLen(h) - 1)
            k == 54 - BitLen(h) + (IF below /\ powerOfTwo THEN 1 ELSE 0)
        IN /\ d.hi = 0 /\ d.mid = 0 /\ d.lo < 2^16
           /\ MagLess(ShiftLeft(d.lo, k), s)

\* The double a / s counted in halves when it is a multiple of one half
\* below 2048, and -1 when it is not; a is a double that is not negative.
HalvesOfQuotient(a, s) ==
    LET s16 == s.hi * 256 + s.mid \div 2^16
        halves(v) ==
            LET v16 == v.hi * 256 + v.mid \div 2^16
                c == (2 * v16 + s16 \div 2) \div s16
                near == { h \in (c - 1) .. (c + 1) :
                            h >= 1 /\ h < 2^12 /\ QuotientIsHalves(v, s, h) }
            IN IF IsZero64(v) THEN 0
               ELSE IF near = {} THEN -1
               ELSE CHOOSE h \in near : TRUE
    IN CHOOSE q \in { halves(v) : v \in {a} } : TRUE

\* v / scale for a whole number v of pixels on the grid, defined when the
\* double the division gives is on the grid.
DivScaleExact(v, s) ==
    LET h == HalvesOfQuotient(Int64(Abs(v) \div Unit), s)
    IN h >= 0 /\ (h * Unit) % 2 = 0
DivScale(v, s) ==
    LET h == HalvesOfQuotient(Int64(Abs(v) \div Unit), s)
        q == (h * Unit) \div 2
    IN IF v < 0 THEN -q ELSE q

\* rect.height / scale counted in grid steps when the double the division
\* gives is on the grid, and -1 when it is not. rect.height, the height of
\* the page container, is the double height * scale: the height of the page
\* in points times the scale it is drawn at.
HeightPoints(height, s) ==
    LET rectHeight == Round53(MulSmall(s, height \div Unit))
        h == HalvesOfQuotient(rectHeight, s)
    IN IF h >= 0 /\ (h * Unit) % 2 = 0 THEN (h * Unit) \div 2 ELSE -1

\* ------------------------------------------------------------------- state

VARIABLES
    file,            \* App: the selected File, or NULL
    fileData,        \* App: the bytes read from a file (named by the file), or NULL
    numPages,        \* App: page count reported by the viewer
    pageNumber,      \* App: the page shown
    scale,           \* App: zoom scale, a double
    annotations,     \* App: the store, in insertion order
    sortedAnnotations, \* App: the memoized ordered view of the store
    origin,          \* App: the origin convention
    selectedId,      \* App: id of the selected annotation, or NULL
    pageDimensions,  \* App: page number -> size; << >> while nothing is loaded
    rendered,        \* viewer: the document of `file` is loaded and its page drawn
    reads,           \* the FileReaders that have not fired onload yet: a bag
                     \* of the files they read
    parses,          \* the pending PDFDocument.load calls of the dimension
                     \* preload: a bag of the files they parse
    isSpacePressed,  \* App: Space is held
    isDraggingCanvas,\* App: a pan drag of the viewport is in progress
    dragState,       \* PdfCanvas: << >> (null) or << the drag record >>
    nextId,          \* the id source (Math.random + Date.now): ids handed out so far
    drawn,           \* pdf-lib: the draw calls issued on the pages of the export
    isSaving,        \* App: an export is running
    error,           \* App: the error message shown, or NULL
    saving,          \* the calls of saveAnnotatedPdf that have not settled yet
    downloads,       \* the files handed to the browser for download, in order
    pan,             \* App: the translation of the canvas, <<x, y>> in pixels
    dragStartRef,    \* App: where the pan drag was last seen, or << >>
    sinceDragEnd,    \* PdfCanvas: Date.now() - lastDragEndTime.current, as 0
                     \* (under 100 ms) or 100 (100 ms or more, or no drag yet)
    steps,           \* handler runs so far
    last             \* the last handler that ran, with its arguments

vars == << file, fileData, numPages, pageNumber, scale, annotations,
           sortedAnnotations, origin, selectedId, pageDimensions, rendered, reads, parses, isSpacePressed,
           isDraggingCanvas, dragState, nextId, drawn, isSaving, error, saving,
           downloads, pan, dragStartRef, sinceDragEnd, steps, last >>

\* ----------------------------------------------------------------- inputs

\* Where a click lands in the page container, in pixels from its top-left.
ClickOffsets == { <<100, 92>>, <<300, 100>> }
\* Pointer positions (clientX, clientY) of a marker press and of the moves
\* that follow it.
PressPositions == { <<400, 300>> }
MovePositions == { <<400, 300>>, <<290, 100>>, <<408, 296>> }
\* What a coordinate field can hold: << >> is text parseFloat makes NaN of.
FieldTexts == { << >>, <<Pt(100)>>, <<Pt(700)>>, <<Pt(-5)>> }

\* clientX, clientY of a press in the viewport that starts a pan drag.
PanPositions == { << 300, 300 >> }
\* clientX, clientY of the moves of a pan drag.
PanMoves == { << 320, 290 >>, << 300, 300 >> }
\* deltaX, deltaY of a wheel event.
WheelDeltas == { << 0, 100 >>, << -40, 0 >> }

\* ---------------------------------------------------------------- helpers

Event(op, id, args, prev) == [op |-> op, id |-> id, args |-> args, prev |-> prev]

\* The size of the page the viewer draws (react-pdf renders `file`).
ShownPage == DocPages(file)[pageNumber]

\* pageDimensions[p] is set.
HasDims(p) == p \in DOMAIN pageDimensions

\* App.tsx: isPanning={isSpacePressed || isDraggingCanvas}
isPanning == isSpacePressed \/ isDraggingCanvas

\* --------------------------------------------------- coordinate conversion

\* A conversion that takes a page of unknown size for a page of size 0 x 0.
getDisplayCoordinatesZeroPage(ann) ==
    LET dims == IF HasDims(ann.pageIndex) THEN pageDimensions[ann.pageIndex]
                ELSE [width |-> 0, height |-> 0]
    IN CASE origin = TOP_LEFT -> [x |-> ann.x, y |-> dims.height - ann.y]
         [] origin = TOP_RIGHT -> [x |-> dims.width - ann.x, y |-> dims.height - ann.y]
         [] origin = BOTTOM_RIGHT -> [x |-> dims.width - ann.x, y |-> ann.y]
         [] OTHER -> [x |-> ann.x, y |-> ann.y]

getDisplayCoordinates(ann) ==
    IF ~HasDims(ann.pageIndex)
    THEN [x |-> ann.x, y |-> ann.y]
    ELSE LET dims == pageDimensions[ann.pageIndex] IN
         CASE origin = TOP_LEFT -> [x |-> ann.x, y |-> dims.height - ann.y]
           [] origin = TOP_RIGHT -> [x |-> dims.width - ann.x, y |-> dims.height - ann.y]
           [] origin = BOTTOM_RIGHT -> [x |-> dims.width - ann.x, y |-> ann.y]
           [] OTHER -> [x |-> ann.x, y |-> ann.y]

\* getDisplayCoordinates with x mirrored for TOP_LEFT instead of TOP_RIGHT.
getDisplayCoordinates64Swapped(ann) ==
    IF ~HasDims(ann.pageIndex)
    THEN [x |-> ann.x, y |-> ann.y]
    ELSE LET dims == pageDimensions[ann.pageIndex] IN
         CASE origin = TOP_LEFT ->
                [x |-> Sub64(dims.width, ann.x), y |-> Sub64(dims.height, ann.y)]
           [] origin = TOP_RIGHT -> [x |-> ann.x, y |-> Sub64(dims.height, ann.y)]
           [] origin = BOTTOM_RIGHT -> [x |-> Sub64(dims.width, ann.x), y |-> ann.y]
           [] OTHER -> [x |-> ann.x, y |-> ann.y]

\* getDisplayCoordinates in double precision.
getDisplayCoordinates64(ann) ==
    IF ~HasDims(ann.pageIndex)
    THEN [x |-> ann.x, y |-> ann.y]
    ELSE LET dims == pageDimensions[ann.pageIndex] IN
         CASE origin = TOP_LEFT -> [x |-> ann.x, y |-> Sub64(dims.height, ann.y)]
           [] origin = TOP_RIGHT ->
                [x |-> Sub64(dims.width, ann.x), y |-> Sub64(dims.height, ann.y)]
           [] origin = BOTTOM_RIGHT -> [x |-> Sub64(dims.width, ann.x), y |-> ann.y]
           [] OTHER -> [x |-> ann.x, y |-> ann.y]

\* `x:${...}, y:${...}` of two integers.
LabelString(rx, ry) == "x:" \o ToString(rx) \o ", y:" \o ToString(ry)

\* A label conversion that mirrors x for TOP_LEFT instead of TOP_RIGHT.
getLabelTextSwapped(ann) ==
    IF ~HasDims(pageNumber)
    THEN LabelString(Round(ann.x), Round(ann.y))
    ELSE LET pd == pageDimensions[pageNumber]
             x == IF origin \in {TOP_LEFT, BOTTOM_RIGHT} THEN pd.width - ann.x ELSE ann.x
             y == IF origin \in {TOP_LEFT, TOP_RIGHT} THEN pd.height - ann.y ELSE ann.y
         IN LabelString(Round(x), Round(y))

\* PdfCanvas.getLabelText; the component's pageDimensions prop is
\* pageDimensions[pageNumber] || null.
getLabelText(ann) ==
    IF ~HasDims(pageNumber)
    THEN LabelString(Round(ann.x), Round(ann.y))
    ELSE LET pd == pageDimensions[pageNumber]
             x == IF origin \in {TOP_RIGHT, BOTTOM_RIGHT} THEN pd.width - ann.x ELSE ann.x
             y == IF origin \in {TOP_LEFT, TOP_RIGHT} THEN pd.height - ann.y ELSE ann.y
         IN LabelString(Round(x), Round(y))

\* saveAnnotatedPdf, step 1: the label's coordinates under origin org on a
\* page of the parsed document, whose size is width x height.
saveDisplayXY(ann, width, height, org) ==
    CASE org = TOP_LEFT -> [displayX |-> ann.x, displayY |-> height - ann.y]
      [] org = TOP_RIGHT -> [displayX |-> width - ann.x, displayY |-> height - ann.y]
      [] org = BOTTOM_RIGHT -> [displayX |-> width - ann.x, displayY |-> ann.y]
      [] OTHER -> [displayX |-> ann.x, displayY |-> ann.y]

\* saveAnnotatedPdf, step 3: the label text.
saveText(ann, width, height, org) ==
    LET d == saveDisplayXY(ann, width, height, org)
    IN LabelString(Round(d.displayX), Round(d.displayY))

\* saveAnnotatedPdf, step 4 without the boundary checks.
saveBoxNoFlip(ann, textWidth, textHeight, width, height) ==
    [boxX |-> ann.x + Pt(DOT_RADIUS), boxY |-> ann.y + Pt(DOT_RADIUS),
     boxWidth |-> textWidth + Pt(PADDING) * 2,
     boxHeight |-> textHeight + Pt(PADDING) * 2]

\* saveAnnotatedPdf, step 4 with one boundary check moving both axes.
saveBoxFlipTogether(ann, textWidth, textHeight, width, height) ==
    LET boxWidth == textWidth + Pt(PADDING) * 2
        boxHeight == textHeight + Pt(PADDING) * 2
        over == \/ ann.x + Pt(DOT_RADIUS) + boxWidth > width
                \/ ann.y + Pt(DOT_RADIUS) + boxHeight > height
    IN [boxX |-> IF over THEN ann.x - Pt(DOT_RADIUS) - boxWidth ELSE ann.x + Pt(DOT_RADIUS),
        boxY |-> IF over THEN ann.y - Pt(DOT_RADIUS) - boxHeight ELSE ann.y + Pt(DOT_RADIUS),
        boxWidth |-> boxWidth, boxHeight |-> boxHeight]

\* saveAnnotatedPdf, steps 3 and 4: the label box of an annotation whose text
\* measures textWidth x textHeight, on a page of size width x height.
saveBox(ann, textWidth, textHeight, width, height) ==
    LET boxWidth == textWidth + Pt(PADDING) * 2
        boxHeight == textHeight + Pt(PADDING) * 2
        boxX0 == ann.x + Pt(DOT_RADIUS)
        boxY0 == ann.y + Pt(DOT_RADIUS)
    IN [boxX |-> IF boxX0 + boxWidth > width
                 THEN ann.x - Pt(DOT_RADIUS) - boxWidth ELSE boxX0,
        boxY |-> IF boxY0 + boxHeight > height
                 THEN ann.y - Pt(DOT_RADIUS) - boxHeight ELSE boxY0,
        boxWidth |-> boxWidth, boxHeight |-> boxHeight]

\* One call on a page of the document being exported.
Draw(op, page, text, args) == [op |-> op, page |-> page, text |-> text, args |-> args]

\* saveAnnotatedPdf, the body of pageAnns.forEach: the calls made for one
\* annotation, in order. Circles carry <<x, y, size>>, rectangles
\* <<x, y, width, height>>, the text <<x, y, size>>; its baseline offset 1.5
\* is taken on the grid.
saveAnnotation(ann, textWidth, textHeight, width, height, org) ==
    LET b == saveBox(ann, textWidth, textHeight, width, height)
        c == Pt(CORNER_RADIUS)
        p == ann.pageIndex
    IN << Draw("drawCircle", p, "", <<ann.x, ann.y, Pt(DOT_RADIUS)>>),
          Draw("drawRectangle", p, "",
               <<b.boxX, b.boxY + c, b.boxWidth, b.boxHeight - 2 * c>>),
          Draw("drawRectangle", p, "",
               <<b.boxX + c, b.boxY, b.boxWidth - 2 * c, b.boxHeight>>),
          Draw("drawCircle", p, "", <<b.boxX + c, b.boxY + c, c>>),
          Draw("drawCircle", p, "", <<b.boxX + b.boxWidth - c, b.boxY + c, c>>),
          Draw("drawCircle", p, "",
               <<b.boxX + b.boxWidth - c, b.boxY + b.boxHeight - c, c>>),
          Draw("drawCircle", p, "", <<b.boxX + c, b.boxY + b.boxHeight - c, c>>),
          Draw("drawText", p, saveText(ann, width, height, org),
               <<b.boxX + Pt(PADDING), b.boxY + Pt(PADDING) + Pt(3) \div 2,
                 Pt(TEXT_SIZE)>>) >>

\* PdfCanvas.getLabelPositionStyle: which side of the dot the preview label
\* is anchored on; the prop pageDimensions is pageDimensions[pageNumber] || null.
getLabelPositionStyle(ann) ==
    IF ~HasDims(pageNumber)
    THEN [right |-> FALSE, top |-> FALSE]
    ELSE LET pd == pageDimensions[pageNumber]
             isNearTop == ann.displayY < Pt(ESTIMATED_HEIGHT)
             isNearRight == ann.displayX + Pt(ESTIMATED_WIDTH) > pd.width
         IN [right |-> isNearRight, top |-> isNearTop]

\* The map callback of updateAnnotationFromDisplay; newX, newY are << >> for
\* null and << v >> for a number.
FromDisplay(ann, id, newX, newY) ==
    IF ann.id # id THEN ann
    ELSE IF ~HasDims(ann.pageIndex) THEN ann
    ELSE LET dims == pageDimensions[ann.pageIndex]
             canonicalX ==
                 IF newX # << >>
                 THEN (IF origin \in {TOP_RIGHT, BOTTOM_RIGHT}
                       THEN dims.width - newX[1] ELSE newX[1])
                 ELSE ann.x
             canonicalY ==
                 IF newY # << >>
                 THEN (IF origin \in {TOP_LEFT, TOP_RIGHT}
                       THEN dims.height - newY[1] ELSE newY[1])
                 ELSE ann.y
             cssDisplayY == dims.height - canonicalY
             cssDisplayX == canonicalX
         IN [ann EXCEPT !.x = canonicalX, !.y = canonicalY,
                        !.displayX = cssDisplayX, !.displayY = cssDisplayY]

\* A field edit that keeps the point on the page.
FromDisplay64Clamped(ann, id, newX, newY) ==
    IF ann.id # id THEN ann
    ELSE IF ~HasDims(ann.pageIndex) THEN ann
    ELSE LET dims == pageDimensions[ann.pageIndex]
             Clamp(v, limit) ==
                 IF v.neg THEN Zero64 ELSE IF LessEq64(v, limit) THEN v ELSE limit
             canonicalX ==
                 IF newX # << >>
                 THEN Clamp(IF origin \in {TOP_RIGHT, BOTTOM_RIGHT}
                            THEN Sub64(dims.width, newX[1]) ELSE newX[1], dims.width)
                 ELSE ann.x
             canonicalY ==
                 IF newY # << >>
                 THEN Clamp(IF origin \in {TOP_LEFT, TOP_RIGHT}
                            THEN Sub64(dims.height, newY[1]) ELSE newY[1], dims.height)
                 ELSE ann.y
         IN [ann EXCEPT !.x = canonicalX, !.y = canonicalY,
                        !.displayX = canonicalX,
                        !.displayY = Sub64(dims.height, canonicalY)]

\* The map callback of updateAnnotationFromDisplay in double precision.
FromDisplay64(ann, id, newX, newY) ==
    IF ann.id # id THEN ann
    ELSE IF ~HasDims(ann.pageIndex) THEN ann
    ELSE LET dims == pageDimensions[ann.pageIndex]
             canonicalX ==
                 IF newX # << >>
                 THEN (IF origin \in {TOP_RIGHT, BOTTOM_RIGHT}
                       THEN Sub64(dims.width, newX[1]) ELSE newX[1])
                 ELSE ann.x
             canonicalY ==
                 IF newY # << >>
                 THEN (IF origin \in {TOP_LEFT, TOP_RIGHT}
                       THEN Sub64(dims.height, newY[1]) ELSE newY[1])
                 ELSE ann.y
             cssDisplayY == Sub64(dims.height, canonicalY)
             cssDisplayX == canonicalX
         IN [ann EXCEPT !.x = canonicalX, !.y = canonicalY,
                        !.displayX = cssDisplayX, !.displayY = cssDisplayY]

\* A position update that moves every annotation, whatever its id.
PositionUpdatedAnyId(ann, id, x, y) ==
    [ann EXCEPT !.x = x, !.y = y, !.displayX = x,
                !.displayY = IF HasDims(ann.pageIndex)
                             THEN pageDimensions[ann.pageIndex].height - y
                             ELSE ann.displayY]

\* An update that also files the moved annotation under the first page.
PositionUpdatedToFirstPage(ann, id, x, y) ==
    IF ann.id # id THEN ann
    ELSE [ann EXCEPT !.pageIndex = 1, !.x = x, !.y = y, !.displayX = x,
                     !.displayY = IF HasDims(ann.pageIndex)
                                  THEN pageDimensions[ann.pageIndex].height - y
                                  ELSE ann.displayY]

\* The map callback of handleUpdateAnnotationPosition.
PositionUpdated(ann, id, x, y) ==
    IF ann.id # id THEN ann
    ELSE LET displayX == x
             displayY == IF HasDims(ann.pageIndex)
                         THEN pageDimensions[ann.pageIndex].height - y
                         ELSE ann.displayY
         IN [ann EXCEPT !.x = x, !.y = y,
                        !.displayX = displayX, !.displayY = displayY]

\* A clamp that forgot the lower edge.
ClampToPageUpperOnly(v, limit) == Min(v, limit)

\* The drag clamp of handleWindowMouseMove against the shown page's dimensions.
ClampToPage(v, limit) == Max(0, Min(v, limit))

\* value = parseFloat(e.target.value) || 0
ParsedField(text) == IF text = << >> THEN 0 ELSE text[1]

\* ------------------------------------------------------------ ordered view

\* A comparator that orders by y alone when the y values differ at all.
compareWithoutTolerance(a, b) ==
    IF a.pageIndex # b.pageIndex THEN a.pageIndex - b.pageIndex
    ELSE IF b.y # a.y THEN b.y - a.y ELSE a.x - b.x

\* A comparator that does not look at the page.
compareIgnoringPage(a, b) ==
    LET yDiff == b.y - a.y IN
    IF Abs(yDiff) > Pt(2) THEN yDiff ELSE a.x - b.x

\* The comparator handed to sort.
compare(a, b) ==
    IF a.pageIndex # b.pageIndex THEN a.pageIndex - b.pageIndex
    ELSE LET yDiff == b.y - a.y IN
         IF Abs(yDiff) > Pt(2) THEN yDiff ELSE a.x - b.x

IndexOrders(n) ==
    { p \in [1..n -> 1..n] : \A i, j \in 1..n : p[i] = p[j] => i = j }

\* [...anns].sort(compare): what a stable comparison sort (the merge and
\* insertion sorts of the JavaScript engines) can return.  Neighbours of the
\* result are in comparator order, and neighbours that compare equal keep
\* their order in anns.  For a comparator that is consistent on anns this is
\* the one stably sorted list; for an inconsistent one (the 2-point tolerance
\* is not transitive) the language leaves the order to the engine, and every
\* order with this property is an outcome.
SortOutcomes(anns) ==
    LET n == Len(anns) IN
    { [k \in 1..n |-> anns[p[k]]] :
        p \in { q \in IndexOrders(n) :
                  \A k \in 1..(n - 1) :
                     LET c == compare(anns[q[k]], anns[q[k + 1]]) IN
                     c < 0 \/ (c = 0 /\ q[k] < q[k + 1]) } }

\* The useMemo of sortedAnnotations, whose dependency is the store: the
\* render that follows a handler keeps the memoized list while the store is
\* what it was, and sorts a copy of the store (the store is not written)
\* when it has changed.
renderSortedAnnotations ==
    IF annotations' = annotations
    THEN sortedAnnotations' = sortedAnnotations
    ELSE sortedAnnotations' \in SortOutcomes(annotations')

\* ------------------------------------------------------------------- Init

Init ==
    /\ file = NULL
    /\ fileData = NULL
    /\ numPages = 0
    /\ pageNumber = 1
    /\ scale = ScaleOne
    /\ annotations = << >>
    /\ sortedAnnotations = << >>
    /\ origin = BOTTOM_LEFT
    /\ selectedId = NoId
    /\ pageDimensions = << >>
    /\ rendered = FALSE
    /\ reads = EmptyBag
    /\ parses = EmptyBag
    /\ isSpacePressed = FALSE
    /\ isDraggingCanvas = FALSE
    /\ dragState = << >>
    /\ nextId = 0
    /\ drawn = << >>
    /\ isSaving = FALSE
    /\ error = NULL
    /\ saving = << >>
    /\ downloads = << >>
    /\ pan = << 0, 0 >>
    /\ dragStartRef = << >>
    /\ sinceDragEnd = 100
    /\ steps = 0
    /\ last = Event("init", NoId, << >>, << >>)

\* ------------------------------------------------------- files and loading

\* onFileChange with the file f, whose File.type is type; the file input
\* exists only while no file is selected.  For a PDF the FileReader is
\* started and fires onload later.
onFileChange(f, type) ==
    /\ file = NULL
    /\ IF type # "application/pdf"
       THEN /\ error' = "Please select a valid PDF file."
            /\ UNCHANGED << file, annotations, pageNumber, pageDimensions,
                            selectedId, scale, pan, reads >>
       ELSE /\ file' = f
            /\ error' = NULL
            /\ annotations' = << >>
            /\ pageNumber' = 1
            /\ pageDimensions' = << >>
            /\ selectedId' = NoId
            /\ pan' = << 0, 0 >>
            /\ scale' = ScaleOne
            /\ reads' = reads (+) SetToBag({f})
    /\ last' = Event("onFileChange", NoId, << type >>, << >>)
    /\ UNCHANGED << fileData, numPages, origin, rendered, parses,
                    isSpacePressed, isDraggingCanvas, dragState, nextId,
                    dragStartRef, sinceDragEnd >>

\* reader.onload up to its await: the bytes are stored, the parse is started.
readerOnload(f) ==
    /\ BagIn(f, reads)
    /\ reads' = reads (-) SetToBag({f})
    /\ fileData' = f
    /\ parses' = parses (+) SetToBag({f})
    /\ last' = Event("readerOnload", NoId, << >>, << >>)
    /\ UNCHANGED << file, numPages, pageNumber, scale, annotations, origin,
                    selectedId, pageDimensions, rendered, isSpacePressed,
                    isDraggingCanvas, dragState, nextId,
                    error, pan, dragStartRef, sinceDragEnd >>

\* reader.onload after PDFDocument.load resolved: the dimensions are stored.
dimensionsLoaded(f) ==
    /\ BagIn(f, parses)
    /\ parses' = parses (-) SetToBag({f})
    /\ pageDimensions' = DocPages(f)
    /\ last' = Event("dimensionsLoaded", NoId, << >>, << >>)
    /\ UNCHANGED << file, fileData, numPages, pageNumber, scale, annotations,
                    origin, selectedId, rendered, reads, isSpacePressed,
                    isDraggingCanvas, dragState, nextId,
                    error, pan, dragStartRef, sinceDragEnd >>

\* reader.onload when PDFDocument.load rejected: the catch logs, no state set.
dimensionsFailed(f) ==
    /\ BagIn(f, parses)
    /\ parses' = parses (-) SetToBag({f})
    /\ last' = Event("dimensionsFailed", NoId, << >>, << >>)
    /\ UNCHANGED << file, fileData, numPages, pageNumber, scale, annotations,
                    origin, selectedId, pageDimensions, rendered, reads,
                    isSpacePressed, isDraggingCanvas, dragState, nextId,
                    error, pan, dragStartRef, sinceDragEnd >>

\* The viewer finished loading `file`: onDocumentLoadSuccess, and the page and
\* the canvas component are there from now on.
onDocumentLoadSuccess ==
    /\ file # NULL
    /\ ~rendered
    /\ rendered' = TRUE
    /\ numPages' = Len(DocPages(file))
    /\ last' = Event("onDocumentLoadSuccess", NoId, << >>, << >>)
    /\ UNCHANGED << file, fileData, pageNumber, scale, annotations, origin,
                    selectedId, pageDimensions, reads, parses, isSpacePressed,
                    isDraggingCanvas, dragState, nextId,
                    error, pan, dragStartRef, sinceDragEnd >>

\* The remove button of the file row.  The canvas component goes away with
\* the file, and its drag state and its lastDragEndTime (0 on the next
\* mount) with it.
removeFile ==
    /\ file # NULL
    /\ file' = NULL
    /\ fileData' = NULL
    /\ annotations' = << >>
    /\ rendered' = FALSE
    /\ dragState' = << >>
    /\ sinceDragEnd' = 100
    /\ last' = Event("removeFile", NoId, << >>, << >>)
    /\ UNCHANGED << numPages, pageNumber, scale, origin, selectedId,
                    pageDimensions, reads, parses, isSpacePressed,
                    isDraggingCanvas, nextId,
                    error, pan, dragStartRef >>

\* ---------------------------------------------------------- view controls

changePage(offset) ==
    /\ numPages > 0
    /\ IF offset < 0 THEN pageNumber > 1 ELSE pageNumber < numPages
    /\ pageNumber' = Min(Max(1, pageNumber + offset), numPages)
    /\ last' = Event("changePage", NoId, << >>, << >>)
    /\ UNCHANGED << file, fileData, numPages, scale, annotations, origin,
                    selectedId, pageDimensions, rendered, reads, parses,
                    isSpacePressed, isDraggingCanvas, dragState, nextId,
                    error, pan, dragStartRef, sinceDragEnd >>

zoomOut ==
    /\ file # NULL
    /\ scale' = Max64(ScaleMin, Sub64(scale, ScaleStep))
    /\ last' = Event("zoomOut", NoId, << >>, << >>)
    /\ UNCHANGED << file, fileData, numPages, pageNumber, annotations, origin,
                    selectedId, pageDimensions, rendered, reads, parses,
                    isSpacePressed, isDraggingCanvas, dragState, nextId,
                    error, pan, dragStartRef, sinceDragEnd >>

zoomIn ==
    /\ file # NULL
    /\ scale' = Min64(ScaleMax, Add64(scale, ScaleStep))
    /\ last' = Event("zoomIn", NoId, << >>, << >>)
    /\ UNCHANGED << file, fileData, numPages, pageNumber, annotations, origin,
                    selectedId, pageDimensions, rendered, reads, parses,
                    isSpacePressed, isDraggingCanvas, dragState, nextId,
                    error, pan, dragStartRef, sinceDragEnd >>

\* An origin change that rewrites the stored display pair as top-left values.
setOriginRewritingDisplay(o) ==
    /\ file # NULL
    /\ origin' = o
    /\ annotations' = [i \in DOMAIN annotations |->
                          [annotations[i] EXCEPT !.displayY = annotations[i].y]]
    /\ last' = Event("setOrigin", NoId, << >>, << >>)
    /\ UNCHANGED << file, fileData, numPages, pageNumber, scale,
                    selectedId, pageDimensions, rendered, reads, parses,
                    isSpacePressed, isDraggingCanvas, dragState, nextId,
                    error, pan, dragStartRef, sinceDragEnd >>

setOrigin(o) ==
    /\ file # NULL
    /\ origin' = o
    /\ last' = Event("setOrigin", NoId, << >>, << >>)
    /\ UNCHANGED << file, fileData, numPages, pageNumber, scale, annotations,
                    selectedId, pageDimensions, rendered, reads, parses,
                    isSpacePressed, isDraggingCanvas, dragState, nextId,
                    error, pan, dragStartRef, sinceDragEnd >>

\* ------------------------------------------------------------ annotations

handleAddAnnotation(ann) ==
    /\ annotations' = Append(annotations, ann)
    /\ selectedId' = ann.id

\* A click handler that does not look at the pan mode.
handleClickWhilePanning(offsetX, offsetY, id) ==
    /\ rendered
    /\ ~(sinceDragEnd < 100)
    /\ Len(annotations) < MaxAnnotations
    /\ DivScaleExact(Pt(offsetX), scale) /\ DivScaleExact(Pt(offsetY), scale)
    /\ HeightPoints(ShownPage.height, scale) >= 0
    /\ LET unscaledX == DivScale(Pt(offsetX), scale)
           unscaledY == DivScale(Pt(offsetY), scale)
           pageHeightPoints == HeightPoints(ShownPage.height, scale)
           pdfX == unscaledX
           pdfY == pageHeightPoints - unscaledY
           newAnnotation == [id |-> id, pageIndex |-> pageNumber,
                             x |-> pdfX, y |-> pdfY,
                             displayX |-> unscaledX, displayY |-> unscaledY]
       IN /\ unscaledX <= ShownPage.width
          /\ unscaledY <= ShownPage.height
          /\ handleAddAnnotation(newAnnotation)
          /\ last' = Event("handleClick", id, << >>, << >>)
    /\ UNCHANGED << file, fileData, numPages, pageNumber, scale, origin,
                    pageDimensions, rendered, reads, parses, isSpacePressed,
                    isDraggingCanvas, dragState,
                    error, pan, dragStartRef, sinceDragEnd >>

\* A click in the page container at (offsetX, offsetY) pixels from its
\* top-left corner; id is what the id expression of the handler evaluates to.
\* rect.height / scale is the height of the page the viewer has drawn.
handleClick(offsetX, offsetY, id) ==
    /\ rendered
    /\ ~isPanning
    /\ ~(sinceDragEnd < 100)
    /\ Len(annotations) < MaxAnnotations
    /\ DivScaleExact(Pt(offsetX), scale) /\ DivScaleExact(Pt(offsetY), scale)
    /\ HeightPoints(ShownPage.height, scale) >= 0
    /\ LET unscaledX == DivScale(Pt(offsetX), scale)
           unscaledY == DivScale(Pt(offsetY), scale)
           pageHeightPoints == HeightPoints(ShownPage.height, scale)
           pdfX == unscaledX
           pdfY == pageHeightPoints - unscaledY
           newAnnotation == [id |-> id, pageIndex |-> pageNumber,
                             x |-> pdfX, y |-> pdfY,
                             displayX |-> unscaledX, displayY |-> unscaledY]
       IN /\ unscaledX <= ShownPage.width
          /\ unscaledY <= ShownPage.height
          /\ handleAddAnnotation(newAnnotation)
          /\ last' = Event("handleClick", id, << >>, << >>)
    /\ UNCHANGED << file, fileData, numPages, pageNumber, scale, origin,
                    pageDimensions, rendered, reads, parses, isSpacePressed,
                    isDraggingCanvas, dragState,
                    error, pan, dragStartRef, sinceDragEnd >>

\* The click of the model's runs: the id source hands out an id it has not
\* handed out before.
clickToAdd(offsetX, offsetY) ==
    /\ nextId < MaxIds
    /\ nextId' = nextId + 1
    /\ handleClick(offsetX, offsetY, nextId + 1)

\* A press on the marker of annotations[i], which the canvas shows.
handleAnnotationMouseDown(i, clientX, clientY) ==
    /\ rendered
    /\ annotations[i].pageIndex = pageNumber
    /\ IF isPanning
       THEN UNCHANGED << selectedId, dragState >>
       ELSE /\ selectedId' = annotations[i].id
            /\ dragState' = << [id |-> annotations[i].id,
                                startX |-> clientX, startY |-> clientY,
                                initialPdfX |-> annotations[i].x,
                                initialPdfY |-> annotations[i].y] >>
    /\ last' = Event("handleAnnotationMouseDown", annotations[i].id, << >>, << >>)
    /\ UNCHANGED << file, fileData, numPages, pageNumber, scale, annotations,
                    origin, pageDimensions, rendered, reads, parses,
                    isSpacePressed, isDraggingCanvas, nextId,
                    error, pan, dragStartRef, sinceDragEnd >>

\* A click on the sidebar row of annotations[i]: setSelectedId(ann.id).
rowClick(i) ==
    /\ i \in DOMAIN annotations
    /\ selectedId' = annotations[i].id
    /\ last' = Event("rowClick", annotations[i].id, << >>, << >>)
    /\ UNCHANGED << file, fileData, numPages, pageNumber, scale, annotations,
                    origin, pageDimensions, rendered, reads, parses,
                    isSpacePressed, isDraggingCanvas, dragState, nextId,
                    error, pan, dragStartRef, sinceDragEnd >>

handleUpdateAnnotationPosition(id, x, y) ==
    annotations' = [i \in DOMAIN annotations |->
                        PositionUpdated(annotations[i], id, x, y)]

\* A move that adds the offset to where the annotation is now.
handleWindowMouseMoveFromCurrent(clientX, clientY) ==
    /\ dragState # << >>
    /\ \E i \in DOMAIN annotations : annotations[i].id = dragState[1].id
    /\ LET cur == annotations[CHOOSE i \in DOMAIN annotations :
                                  annotations[i].id = dragState[1].id]
           d == [dragState[1] EXCEPT !.initialPdfX = cur.x, !.initialPdfY = cur.y]
           deltaX == clientX - d.startX
           deltaY == clientY - d.startY
       IN /\ DivScaleExact(Pt(deltaX), scale) /\ DivScaleExact(Pt(deltaY), scale)
          /\ LET pdfDeltaX == DivScale(Pt(deltaX), scale)
                 pdfDeltaY == -DivScale(Pt(deltaY), scale)
                 known == HasDims(pageNumber)
                 newX == IF known
                         THEN ClampToPage(d.initialPdfX + pdfDeltaX,
                                          pageDimensions[pageNumber].width)
                         ELSE d.initialPdfX + pdfDeltaX
                 newY == IF known
                         THEN ClampToPage(d.initialPdfY + pdfDeltaY,
                                          pageDimensions[pageNumber].height)
                         ELSE d.initialPdfY + pdfDeltaY
             IN /\ handleUpdateAnnotationPosition(d.id, newX, newY)
                /\ last' = Event("handleWindowMouseMove", d.id,
                                 << d.initialPdfX + pdfDeltaX,
                                    d.initialPdfY + pdfDeltaY, known,
                                    clientX, clientY >>, << >>)
    /\ UNCHANGED << file, fileData, numPages, pageNumber, scale, origin,
                    selectedId, pageDimensions, rendered, reads, parses,
                    isSpacePressed, isDraggingCanvas, dragState, nextId,
                    error, pan, dragStartRef, sinceDragEnd >>

\* A pointer move during a marker drag.  args of the event: the position
\* handed to the store, whether the shown page's dimensions were known,
\* and the pointer position.
handleWindowMouseMove(clientX, clientY) ==
    /\ dragState # << >>
    /\ LET d == dragState[1]
           deltaX == clientX - d.startX
           deltaY == clientY - d.startY
       IN /\ DivScaleExact(Pt(deltaX), scale) /\ DivScaleExact(Pt(deltaY), scale)
          /\ LET pdfDeltaX == DivScale(Pt(deltaX), scale)
                 pdfDeltaY == -DivScale(Pt(deltaY), scale)
                 known == HasDims(pageNumber)
                 newX == IF known
                         THEN ClampToPage(d.initialPdfX + pdfDeltaX,
                                          pageDimensions[pageNumber].width)
                         ELSE d.initialPdfX + pdfDeltaX
                 newY == IF known
                         THEN ClampToPage(d.initialPdfY + pdfDeltaY,
                                          pageDimensions[pageNumber].height)
                         ELSE d.initialPdfY + pdfDeltaY
             IN /\ handleUpdateAnnotationPosition(d.id, newX, newY)
                /\ last' = Event("handleWindowMouseMove", d.id,
                                 << d.initialPdfX + pdfDeltaX,
                                    d.initialPdfY + pdfDeltaY, known,
                                    clientX, clientY >>, << >>)
    /\ UNCHANGED << file, fileData, numPages, pageNumber, scale, origin,
                    selectedId, pageDimensions, rendered, reads, parses,
                    isSpacePressed, isDraggingCanvas, dragState, nextId,
                    error, pan, dragStartRef, sinceDragEnd >>

\* The release that ends a marker drag: lastDragEndTime.current = Date.now().
handleWindowMouseUp ==
    /\ dragState # << >>
    /\ dragState' = << >>
    /\ sinceDragEnd' = 0
    /\ last' = Event("handleWindowMouseUp", NoId, << >>, << >>)
    /\ UNCHANGED << file, fileData, numPages, pageNumber, scale, annotations,
                    origin, selectedId, pageDimensions, rendered, reads, parses,
                    isSpacePressed, isDraggingCanvas, nextId,
                    error, pan, dragStartRef >>

\* The clock passes the hundredth millisecond after the last drag release.
timePasses ==
    /\ sinceDragEnd < 100
    /\ sinceDragEnd' = 100
    /\ last' = Event("timePasses", NoId, << >>, << >>)
    /\ UNCHANGED << file, fileData, numPages, pageNumber, scale, annotations,
                    origin, selectedId, pageDimensions, rendered, reads, parses,
                    isSpacePressed, isDraggingCanvas, dragState, nextId,
                    error, pan, dragStartRef >>

updateAnnotationFromDisplay(id, newX, newY) ==
    annotations' = [i \in DOMAIN annotations |->
                        FromDisplay(annotations[i], id, newX, newY)]

\* onChange of the X field (axis "x") or the Y field (axis "y") in the row
\* of annotations[i].  prev of the event: the annotation before the edit.
fieldEdit(i, axis, text) ==
    /\ i \in DOMAIN annotations
    /\ LET value == ParsedField(text) IN
       /\ IF axis = "x"
          THEN updateAnnotationFromDisplay(annotations[i].id, << value >>, << >>)
          ELSE updateAnnotationFromDisplay(annotations[i].id, << >>, << value >>)
       /\ last' = Event("updateAnnotationFromDisplay", annotations[i].id,
                        << axis, value >>, << annotations[i] >>)
    /\ UNCHANGED << file, fileData, numPages, pageNumber, scale, origin,
                    selectedId, pageDimensions, rendered, reads, parses,
                    isSpacePressed, isDraggingCanvas, dragState, nextId,
                    error, pan, dragStartRef, sinceDragEnd >>

\* A delete that clears the selection whatever was selected.
handleDeleteAnnotationDeselecting(id) ==
    /\ annotations' = SelectSeq(annotations, LAMBDA a : a.id # id)
    /\ selectedId' = NoId

handleDeleteAnnotation(id) ==
    /\ annotations' = SelectSeq(annotations, LAMBDA a : a.id # id)
    /\ selectedId' = IF selectedId = id THEN NoId ELSE selectedId

\* The delete button in the row of annotations[i].  args of the event: what
\* was selected before; prev: the store before.
deleteButton(i) ==
    /\ i \in DOMAIN annotations
    /\ handleDeleteAnnotation(annotations[i].id)
    /\ last' = Event("handleDeleteAnnotation", annotations[i].id,
                     << selectedId >>, annotations)
    /\ UNCHANGED << file, fileData, numPages, pageNumber, scale, origin,
                    pageDimensions, rendered, reads, parses, isSpacePressed,
                    isDraggingCanvas, dragState, nextId,
                    error, pan, dragStartRef, sinceDragEnd >>

\* keydown of Delete or Backspace outside an input while something is
\* selected: handleDeleteAnnotation(selectedId), then setSelectedId(null).
deleteKey ==
    /\ selectedId # NoId
    /\ annotations' = SelectSeq(annotations, LAMBDA a : a.id # selectedId)
    /\ selectedId' = NoId
    /\ last' = Event("handleDeleteAnnotation", selectedId, << selectedId >>, annotations)
    /\ UNCHANGED << file, fileData, numPages, pageNumber, scale, origin,
                    pageDimensions, rendered, reads, parses, isSpacePressed,
                    isDraggingCanvas, dragState, nextId,
                    error, pan, dragStartRef, sinceDragEnd >>

\* --------------------------------------------------------------- pan mode

\* keydown of Space outside an input (not a repeat).
spaceKeyDown ==
    /\ ~isSpacePressed
    /\ isSpacePressed' = TRUE
    /\ last' = Event("handleKeyDown", NoId, << >>, << >>)
    /\ UNCHANGED << file, fileData, numPages, pageNumber, scale, annotations,
                    origin, selectedId, pageDimensions, rendered, reads, parses,
                    isDraggingCanvas, dragState, nextId,
                    error, pan, dragStartRef, sinceDragEnd >>

\* keyup of Space, wherever the focus is and whatever keydown did.
spaceKeyUp ==
    /\ isSpacePressed' = FALSE
    /\ isDraggingCanvas' = FALSE
    /\ last' = Event("handleKeyUp", NoId, << >>, << >>)
    /\ UNCHANGED << file, fileData, numPages, pageNumber, scale, annotations,
                    origin, selectedId, pageDimensions, rendered, reads, parses,
                    dragState, nextId,
                    error, pan, dragStartRef, sinceDragEnd >>

\* A press in the viewport that no marker stopped; middle is the button.
handleCanvasMouseDown(middle, clientX, clientY) ==
    /\ IF isSpacePressed \/ middle
       THEN /\ isDraggingCanvas' = TRUE
            /\ dragStartRef' = << clientX, clientY >>
            /\ UNCHANGED selectedId
       ELSE selectedId' = NoId /\ UNCHANGED << isDraggingCanvas, dragStartRef >>
    /\ last' = Event("handleCanvasMouseDown", NoId, << >>, << >>)
    /\ UNCHANGED << file, fileData, numPages, pageNumber, scale, annotations,
                    origin, pageDimensions, rendered, reads, parses,
                    isSpacePressed, dragState, nextId,
                    error, pan, sinceDragEnd >>

\* mouseup in the viewport, or the pointer leaving it: onMouseUp and
\* onMouseLeave, whether or not a pan drag is in progress.
handleCanvasMouseUp ==
    /\ isDraggingCanvas' = FALSE
    /\ dragStartRef' = << >>
    /\ last' = Event("handleCanvasMouseUp", NoId, << >>, << >>)
    /\ UNCHANGED << file, fileData, numPages, pageNumber, scale, annotations,
                    origin, selectedId, pageDimensions, rendered, reads, parses,
                    isSpacePressed, dragState, nextId,
                    error, pan, sinceDragEnd >>

\* The move of a pan drag: the canvas follows the pointer.
handleCanvasMouseMove(clientX, clientY) ==
    /\ IF isDraggingCanvas /\ dragStartRef # << >>
       THEN LET deltaX == clientX - dragStartRef[1]
                deltaY == clientY - dragStartRef[2]
            IN /\ pan' = << pan[1] + deltaX, pan[2] + deltaY >>
               /\ dragStartRef' = << clientX, clientY >>
       ELSE UNCHANGED << pan, dragStartRef >>
    /\ last' = Event("handleCanvasMouseMove", NoId, << clientX, clientY >>, annotations)
    /\ UNCHANGED << file, fileData, numPages, pageNumber, scale, annotations,
                    origin, selectedId, pageDimensions, rendered, reads, parses,
                    isSpacePressed, isDraggingCanvas, dragState, nextId,
                    error, sinceDragEnd >>

\* The wheel listener of the viewport: a zoom gesture (ctrl or meta) is
\* ignored, any other wheel event pans.
handleWheel(deltaX, deltaY, ctrlKey) ==
    /\ IF ctrlKey
       THEN UNCHANGED pan
       ELSE pan' = << pan[1] - deltaX, pan[2] - deltaY >>
    /\ last' = Event("handleWheel", NoId, << deltaX, deltaY, ctrlKey >>, annotations)
    /\ UNCHANGED << file, fileData, numPages, pageNumber, scale, annotations,
                    origin, selectedId, pageDimensions, rendered, reads, parses,
                    isSpacePressed, isDraggingCanvas, dragState, nextId,
                    error, dragStartRef, sinceDragEnd >>

\* The Reset button.
handleResetView ==
    /\ file # NULL
    /\ pan' = << 0, 0 >>
    /\ scale' = ScaleOne
    /\ last' = Event("handleResetView", NoId, << >>, annotations)
    /\ UNCHANGED << file, fileData, numPages, pageNumber, annotations,
                    origin, selectedId, pageDimensions, rendered, reads, parses,
                    isSpacePressed, isDraggingCanvas, dragState, nextId,
                    error, dragStartRef, sinceDragEnd >>

\* ------------------------------------------------------------------ export

\* helveticaFont.widthOfTextAtSize(text, TEXT_SIZE) and heightAtSize(TEXT_SIZE):
\* the embedded font's metrics, a fixed function of the text. The glyphs of a
\* label are taken as GlyphAdvance wide each and the line as LineHeight high.
GlyphAdvance == Pt(4)
LineHeight == Pt(7) + Half
widthOfTextAtSize(text) == Len(text) * GlyphAdvance
heightAtSize == LineHeight

\* annotationsByPage[p]: the annotations of page p, in list order.
annotationsByPage(anns, p) == SelectSeq(anns, LAMBDA a : a.pageIndex = p)

\* pageAnns.forEach: the calls for the annotations of one page, in order.
RECURSIVE pageAnnsDraws(_, _, _)
pageAnnsDraws(pageAnns, size, org) ==
    IF pageAnns = << >> THEN << >>
    ELSE LET ann == Head(pageAnns)
             text == saveText(ann, size.width, size.height, org)
         IN saveAnnotation(ann, widthOfTextAtSize(text), heightAtSize,
                           size.width, size.height, org)
            \o pageAnnsDraws(Tail(pageAnns), size, org)

\* A visit of the page keys from the last page to the first.
RECURSIVE forEachPageKeyDescending(_, _, _, _)
forEachPageKeyDescending(keys, anns, pages, org) ==
    IF keys = {} THEN << >>
    ELSE LET pageIdx == CHOOSE k \in keys : \A j \in keys : k >= j
             pageIndex == pageIdx - 1
         IN (IF pageIndex >= 0 /\ pageIndex < Len(pages)
             THEN pageAnnsDraws(annotationsByPage(anns, pageIdx), pages[pageIdx], org)
             ELSE << >>)
            \o forEachPageKeyDescending(keys \ {pageIdx}, anns, pages, org)

\* Object.keys(annotationsByPage).forEach: the keys are positive integers, so
\* they are visited in ascending order; a key that is not a page of the
\* parsed document is passed over.
RECURSIVE forEachPageKey(_, _, _, _)
forEachPageKey(keys, anns, pages, org) ==
    IF keys = {} THEN << >>
    ELSE LET pageIdx == CHOOSE k \in keys : \A j \in keys : k <= j
             pageIndex == pageIdx - 1
         IN (IF pageIndex >= 0 /\ pageIndex < Len(pages)
             THEN pageAnnsDraws(annotationsByPage(anns, pageIdx), pages[pageIdx], org)
             ELSE << >>)
            \o forEachPageKey(keys \ {pageIdx}, anns, pages, org)

\* saveAnnotatedPdf between embedFont and pdfDoc.save(): every draw call it
\* issues on the pages of the document parsed from originalPdfBytes.
saveAnnotatedPdfDraws(originalPdfBytes, anns, org) ==
    forEachPageKey({ anns[i].pageIndex : i \in DOMAIN anns }, anns,
                   DocPages(originalPdfBytes), org)

\* s without its k-th element.
RemoveAt(s, k) == SubSeq(s, 1, k - 1) \o SubSeq(s, k + 1, Len(s))

\* A Download button that stays enabled while an export runs.
handleSaveWhileSaving ==
    /\ file # NULL /\ Len(annotations) > 0
    /\ fileData # NULL
    /\ isSaving' = TRUE
    /\ saving' = Append(saving, [originalPdfBytes |-> fileData,
                                 annotations |-> annotations,
                                 fileName |-> file,
                                 origin |-> origin,
                                 stage |-> "load",
                                 draws |-> << >>])
    /\ last' = Event("handleSave", NoId, << >>, annotations)
    /\ UNCHANGED << file, fileData, numPages, pageNumber, scale, annotations,
                    origin, selectedId, pageDimensions, rendered, reads, parses,
                    isSpacePressed, isDraggingCanvas, dragState, nextId,
                    error, drawn, downloads,
                    pan, dragStartRef, sinceDragEnd >>

\* App.handleSave up to its await: the Download button is disabled without a
\* file, without annotations and while saving; the call captures its arguments.
handleSave ==
    /\ file # NULL /\ Len(annotations) > 0 /\ ~isSaving
    /\ fileData # NULL
    /\ isSaving' = TRUE
    /\ saving' = Append(saving, [originalPdfBytes |-> fileData,
                                 annotations |-> annotations,
                                 fileName |-> file,
                                 origin |-> origin,
                                 stage |-> "load",
                                 draws |-> << >>])
    /\ last' = Event("handleSave", NoId, << >>, annotations)
    /\ UNCHANGED << file, fileData, numPages, pageNumber, scale, annotations,
                    origin, selectedId, pageDimensions, rendered, reads, parses,
                    isSpacePressed, isDraggingCanvas, dragState, nextId,
                    error, drawn, downloads,
                    pan, dragStartRef, sinceDragEnd >>

\* saveAnnotatedPdf: PDFDocument.load resolved; embedFont is awaited next.
loadResolved(k) ==
    /\ k \in DOMAIN saving
    /\ saving[k].stage = "load"
    /\ saving' = [saving EXCEPT ![k].stage = "embedFont"]
    /\ last' = Event("PDFDocument.load", NoId, << k >>, annotations)
    /\ UNCHANGED << file, fileData, numPages, pageNumber, scale, annotations,
                    origin, selectedId, pageDimensions, rendered, reads, parses,
                    isSpacePressed, isDraggingCanvas, dragState, nextId,
                    error, isSaving, drawn, downloads,
                    pan, dragStartRef, sinceDragEnd >>

\* A drawing pass that reads the store and the origin as they are when the
\* font has been embedded.
embedFontResolvedReadingStore(k) ==
    /\ k \in DOMAIN saving
    /\ saving[k].stage = "embedFont"
    /\ LET e == saving[k]
           draws == saveAnnotatedPdfDraws(e.originalPdfBytes, annotations, origin)
       IN /\ drawn' = draws
          /\ saving' = [saving EXCEPT ![k].stage = "save", ![k].draws = draws]
    /\ last' = Event("embedFont", NoId, << k >>, annotations)
    /\ UNCHANGED << file, fileData, numPages, pageNumber, scale, annotations,
                    origin, selectedId, pageDimensions, rendered, reads, parses,
                    isSpacePressed, isDraggingCanvas, dragState, nextId,
                    error, isSaving, downloads, pan, dragStartRef, sinceDragEnd >>

\* A drawing pass on a document that keeps the marks of the passes before it.
embedFontResolvedOnMarkedDocument(k) ==
    /\ k \in DOMAIN saving
    /\ saving[k].stage = "embedFont"
    /\ LET e == saving[k]
           draws == drawn \o saveAnnotatedPdfDraws(e.originalPdfBytes, e.annotations,
                                                   e.origin)
       IN /\ drawn' = draws
          /\ saving' = [saving EXCEPT ![k].stage = "save", ![k].draws = draws]
    /\ last' = Event("embedFont", NoId, << k >>, annotations)
    /\ UNCHANGED << file, fileData, numPages, pageNumber, scale, annotations,
                    origin, selectedId, pageDimensions, rendered, reads, parses,
                    isSpacePressed, isDraggingCanvas, dragState, nextId,
                    error, isSaving, downloads,
                    pan, dragStartRef, sinceDragEnd >>

\* saveAnnotatedPdf: embedFont resolved; the annotations are grouped and drawn
\* in the same turn, and pdfDoc.save() is awaited next.
embedFontResolved(k) ==
    /\ k \in DOMAIN saving
    /\ saving[k].stage = "embedFont"
    /\ LET e == saving[k]
           draws == saveAnnotatedPdfDraws(e.originalPdfBytes, e.annotations, e.origin)
       IN /\ drawn' = draws
          /\ saving' = [saving EXCEPT ![k].stage = "save", ![k].draws = draws]
    /\ last' = Event("embedFont", NoId, << k >>, annotations)
    /\ UNCHANGED << file, fileData, numPages, pageNumber, scale, annotations,
                    origin, selectedId, pageDimensions, rendered, reads, parses,
                    isSpacePressed, isDraggingCanvas, dragState, nextId,
                    error, isSaving, downloads,
                    pan, dragStartRef, sinceDragEnd >>

\* saveAnnotatedPdf: pdfDoc.save() resolved; the link is clicked, the promise
\* resolves and handleSave's finally clears the flag. A download is recorded
\* with the arguments of the call that produced it.
saveResolved(k) ==
    /\ k \in DOMAIN saving
    /\ saving[k].stage = "save"
    /\ downloads' = Append(downloads, [download |-> "annotated_" \o saving[k].fileName,
                                       originalPdfBytes |-> saving[k].originalPdfBytes,
                                       annotations |-> saving[k].annotations,
                                       origin |-> saving[k].origin,
                                       draws |-> saving[k].draws])
    /\ saving' = RemoveAt(saving, k)
    /\ isSaving' = FALSE
    /\ last' = Event("saveAnnotatedPdf", NoId, << saving[k] >>, annotations)
    /\ UNCHANGED << file, fileData, numPages, pageNumber, scale, annotations,
                    origin, selectedId, pageDimensions, rendered, reads, parses,
                    isSpacePressed, isDraggingCanvas, dragState, nextId,
                    error, drawn,
                    pan, dragStartRef, sinceDragEnd >>

\* A rejection that still hands the document parsed so far to the browser.
saveRejectedAfterDownload(k) ==
    /\ k \in DOMAIN saving
    /\ downloads' = Append(downloads, [download |-> "annotated_" \o saving[k].fileName,
                                       originalPdfBytes |-> saving[k].originalPdfBytes,
                                       annotations |-> saving[k].annotations,
                                       origin |-> saving[k].origin,
                                       draws |-> saving[k].draws])
    /\ saving' = RemoveAt(saving, k)
    /\ error' = "Failed to save the PDF. Please try again."
    /\ isSaving' = FALSE
    /\ last' = Event("saveAnnotatedPdf", NoId,
                     << saving[k], "Failed to save annotated PDF." >>, annotations)
    /\ UNCHANGED << file, fileData, numPages, pageNumber, scale, annotations,
                    origin, selectedId, pageDimensions, rendered, reads, parses,
                    isSpacePressed, isDraggingCanvas, dragState, nextId,
                    drawn,
                    pan, dragStartRef, sinceDragEnd >>

\* saveAnnotatedPdf's catch and handleSave's catch and finally: the awaited
\* step of export k rejects (parsing, font embedding or serialization), the
\* error is replaced by 'Failed to save annotated PDF.' and the UI shows its
\* own message.
saveRejected(k) ==
    /\ k \in DOMAIN saving
    /\ saving' = RemoveAt(saving, k)
    /\ error' = "Failed to save the PDF. Please try again."
    /\ isSaving' = FALSE
    /\ last' = Event("saveAnnotatedPdf", NoId,
                     << saving[k], "Failed to save annotated PDF." >>, annotations)
    /\ UNCHANGED << file, fileData, numPages, pageNumber, scale, annotations,
                    origin, selectedId, pageDimensions, rendered, reads, parses,
                    isSpacePressed, isDraggingCanvas, dragState, nextId,
                    drawn, downloads,
                    pan, dragStartRef, sinceDragEnd >>

\* The same when a draw call throws: the calls of the first n annotations of
\* the export were issued on the parsed document before the throw.
drawThrows(k, n) ==
    /\ k \in DOMAIN saving
    /\ saving[k].stage = "embedFont"
    /\ LET e == saving[k]
           draws == saveAnnotatedPdfDraws(e.originalPdfBytes, e.annotations, e.origin)
       IN /\ n * 8 < Len(draws)
          /\ drawn' = SubSeq(draws, 1, n * 8)
    /\ saving' = RemoveAt(saving, k)
    /\ error' = "Failed to save the PDF. Please try again."
    /\ isSaving' = FALSE
    /\ last' = Event("saveAnnotatedPdf", NoId,
                     << [saving[k] EXCEPT !.stage = "draw"],
                        "Failed to save annotated PDF." >>, annotations)
    /\ UNCHANGED << file, fileData, numPages, pageNumber, scale, annotations,
                    origin, selectedId, pageDimensions, rendered, reads, parses,
                    isSpacePressed, isDraggingCanvas, dragState, nextId,
                    downloads,
                    pan, dragStartRef, sinceDragEnd >>

\* ------------------------------------------------------------------- Next

\* One handler runs at a time (a single event loop), to completion or to its
\* next await, and the render that follows it recomputes the ordered view.
Step(handler) ==
    /\ steps' = steps + 1
    /\ handler
    /\ renderSortedAnnotations
    /\ UNCHANGED << drawn, isSaving, saving, downloads >>

\* A step of the export, which owns the export's variables.
ExportStep(handler) ==
    /\ steps' = steps + 1
    /\ handler
    /\ renderSortedAnnotations

Next ==
    \/ \E f \in Files, type \in FileTypes :
           steps < MaxSteps /\ Step(onFileChange(f, type))
    \/ \E f \in Files : steps < MaxSteps /\ Step(readerOnload(f))
    \/ \E f \in Files : steps < MaxSteps /\ Step(dimensionsLoaded(f))
    \/ \E f \in Files : steps < MaxSteps /\ Step(dimensionsFailed(f))
    \/ steps < MaxSteps /\ Step(onDocumentLoadSuccess)
    \/ steps < MaxSteps /\ Step(removeFile)
    \/ \E offset \in {-1, 1} : steps < MaxSteps /\ Step(changePage(offset))
    \/ steps < MaxSteps /\ Step(zoomOut)
    \/ steps < MaxSteps /\ Step(zoomIn)
    \/ \E o \in CoordinateOrigin : steps < MaxSteps /\ Step(setOrigin(o))
    \/ \E c \in ClickOffsets : steps < MaxSteps /\ Step(clickToAdd(c[1], c[2]))
    \/ \E i \in DOMAIN annotations, p \in PressPositions :
           steps < MaxSteps /\ Step(handleAnnotationMouseDown(i, p[1], p[2]))
    \/ \E q \in MovePositions :
           steps < MaxSteps /\ Step(handleWindowMouseMove(q[1], q[2]))
    \/ steps < MaxSteps /\ Step(handleWindowMouseUp)
    \/ steps < MaxSteps /\ Step(timePasses)
    \/ \E i \in DOMAIN annotations : steps < MaxSteps /\ Step(rowClick(i))
    \/ \E i \in DOMAIN annotations, axis \in {"x", "y"}, text \in FieldTexts :
           steps < MaxSteps /\ Step(fieldEdit(i, axis, text))
    \/ \E i \in DOMAIN annotations : steps < MaxSteps /\ Step(deleteButton(i))
    \/ steps < MaxSteps /\ Step(deleteKey)
    \/ steps < MaxSteps /\ Step(spaceKeyDown)
    \/ steps < MaxSteps /\ Step(spaceKeyUp)
    \/ \E middle \in BOOLEAN, c \in PanPositions :
           steps < MaxSteps /\ Step(handleCanvasMouseDown(middle, c[1], c[2]))
    \/ \E q \in PanMoves :
           steps < MaxSteps /\ Step(handleCanvasMouseMove(q[1], q[2]))
    \/ steps < MaxSteps /\ Step(handleCanvasMouseUp)
    \/ \E d \in WheelDeltas, ctrlKey \in BOOLEAN :
           steps < MaxSteps /\ Step(handleWheel(d[1], d[2], ctrlKey))
    \/ steps < MaxSteps /\ Step(handleResetView)
    \/ steps < MaxSteps /\ ExportStep(handleSave)
    \/ \E k \in DOMAIN saving : ExportStep(loadResolved(k))
    \/ \E k \in DOMAIN saving : ExportStep(embedFontResolved(k))
    \/ \E k \in DOMAIN saving : ExportStep(saveResolved(k))
    \/ \E k \in DOMAIN saving : ExportStep(saveRejected(k))
    \/ \E k \in DOMAIN saving, n \in 0 .. MaxAnnotations - 1 :
           ExportStep(drawThrows(k, n))

Spec == Init /\ [][Next]_vars

\* -------------------------------------------------------- label placement

\* Canonical marker positions, and the text metrics the embedded font can
\* report (widthOfTextAtSize, heightAtSize): 36 x 16 makes a 40 x 20 box,
\* 45 x 9 a 49 x 13 box, 106 x 26 a box of the preview's estimated size.
LabelFiles == {"A", "S"}
LabelXs == {Pt(-10), Pt(0), Pt(50), Pt(97), Pt(500), Pt(600)}
LabelYs == {Pt(0), Pt(20), Pt(100), Pt(700), Pt(761), Pt(790)}
TextWidths == {Pt(36), Pt(45), Pt(106)}
TextHeights == {Pt(16), Pt(9), Pt(26)}

\* Document f is open on page p with its dimensions loaded, and the store is
\* anns.
Opened(f, p, anns) ==
    /\ file = f
    /\ fileData = f
    /\ numPages = Len(DocPages(f))
    /\ pageNumber = p
    /\ scale = ScaleOne
    /\ annotations = anns
    /\ sortedAnnotations \in SortOutcomes(anns)
    /\ selectedId = NoId
    /\ pageDimensions = DocPages(f)
    /\ rendered = TRUE
    /\ reads = EmptyBag
    /\ parses = EmptyBag
    /\ isSpacePressed = FALSE
    /\ isDraggingCanvas = FALSE
    /\ dragState = << >>
    /\ nextId = Len(anns)
    /\ drawn = << >>
    /\ isSaving = FALSE
    /\ error = NULL
    /\ saving = << >>
    /\ downloads = << >>
    /\ pan = << 0, 0 >>
    /\ dragStartRef = << >>
    /\ sinceDragEnd = 100
    /\ steps = 0
    /\ last = Event("init", NoId, << >>, << >>)

\* An annotation as the handlers store it when the page height is known.
Stored(id, p, x, y, height) ==
    [id |-> id, pageIndex |-> p, x |-> x, y |-> y,
     displayX |-> x, displayY |-> height - y]

InitLabel ==
    \E f \in LabelFiles, x \in LabelXs, y \in LabelYs :
        \E p \in DOMAIN DocPages(f) :
            /\ x <= DocPages(f)[p].width
            /\ y <= DocPages(f)[p].height
            /\ origin \in CoordinateOrigin
            /\ Opened(f, p, << Stored(1, p, x, y, DocPages(f)[p].height) >>)

\* saveAnnotatedPdf, one run of the body of pageAnns.forEach: annotation i is
\* drawn on its page of the parsed document, the font reporting
\* textWidth x textHeight for its text.
pageAnnsForEach(i, textWidth, textHeight) ==
    /\ fileData # NULL
    /\ annotations[i].pageIndex \in DOMAIN DocPages(fileData)
    /\ LET ann == annotations[i]
           size == DocPages(fileData)[ann.pageIndex]
       IN /\ drawn' = saveAnnotation(ann, textWidth, textHeight,
                                     size.width, size.height, origin)
          /\ last' = Event("saveAnnotatedPdf", ann.id, <<textWidth, textHeight>>, << >>)
    /\ UNCHANGED << file, fileData, numPages, pageNumber, scale, annotations,
                    sortedAnnotations, origin, selectedId, pageDimensions,
                    rendered, reads, parses, isSpacePressed, isDraggingCanvas,
                    dragState, nextId, steps,
                    error, isSaving, saving, downloads,
                    pan, dragStartRef, sinceDragEnd >>

NextLabel ==
    \E i \in DOMAIN annotations, textWidth \in TextWidths, textHeight \in TextHeights :
        pageAnnsForEach(i, textWidth, textHeight)

SpecLabel == InitLabel /\ [][NextLabel]_vars

\* ----------------------------------------------------------- ordered lists

\* Stores of SortLen annotations in every insertion order: on page 1 three
\* columns, and rows at 100, 650, 698, 700 and just above 700 (698 and 700
\* are within the tolerance, as are 700 and the row above it, 698 and that
\* row are not); on page 2 the row at 100.
SortLen == 3
SortXs == {Pt(5), Pt(10), Pt(50)}
SortYs(p) ==
    IF p = 1 THEN {Pt(100), Pt(650), Pt(698), Pt(700), Pt(700) + Half} ELSE {Pt(100)}
SortPoints ==
    { pt \in [pageIndex : DOMAIN DocA, x : SortXs,
              y : {Pt(100), Pt(650), Pt(698), Pt(700), Pt(700) + Half}] :
        pt.y \in SortYs(pt.pageIndex) }
SortStores ==
    { [k \in 1..SortLen |->
          Stored(k, pts[k].pageIndex, pts[k].x, pts[k].y, DocA[pts[k].pageIndex].height)] :
        pts \in [1..SortLen -> SortPoints] }

InitSort ==
    \E anns \in SortStores :
        /\ origin = BOTTOM_LEFT
        /\ Opened("A", 1, anns)

NextSort ==
    \E i \in 1..SortLen : Step(deleteButton(i))

SpecSort == InitSort /\ [][NextSort]_vars

\* ------------------------------------------- conversions in double precision

\* Canonical components and field values: 0.1, 0.3, 100, 100.5, 600.7, 700
\* and -5.
Doubles ==
    { Dbl(FALSE, 25, 10066329, 10066330), Dbl(FALSE, 76, 13421772, 13421772),
      Dbl(FALSE, 25600, 0, 0), Dbl(FALSE, 25728, 0, 0),
      Dbl(FALSE, 153779, 3355443, 3358720), Dbl(FALSE, 179200, 0, 0),
      Dbl(TRUE, 1280, 0, 0) }

\* The most handler runs followed in double precision.
MaxSteps64 == 3

InitF64 ==
    \E p \in DOMAIN DocF, x \in Doubles, y \in Doubles :
        /\ origin \in CoordinateOrigin
        /\ Opened("F", p,
                  << [id |-> 1, pageIndex |-> p, x |-> x, y |-> y,
                      displayX |-> x, displayY |-> Sub64(DocF[p].height, y)] >>)

updateAnnotationFromDisplay64(id, newX, newY) ==
    annotations' = [i \in DOMAIN annotations |->
                        FromDisplay64(annotations[i], id, newX, newY)]

\* The X or the Y field of the row of annotations[i] receives a value.
fieldEdit64(i, axis, value) ==
    /\ IF axis = "x"
       THEN updateAnnotationFromDisplay64(annotations[i].id, << value >>, << >>)
       ELSE updateAnnotationFromDisplay64(annotations[i].id, << >>, << value >>)
    /\ last' = Event("updateAnnotationFromDisplay", annotations[i].id,
                     << axis, value >>, << annotations[i] >>)
    /\ UNCHANGED << file, fileData, numPages, pageNumber, scale, origin,
                    selectedId, pageDimensions, rendered, reads, parses,
                    isSpacePressed, isDraggingCanvas, dragState, nextId,
                    error, pan, dragStartRef, sinceDragEnd >>

\* Both components getDisplayCoordinates gives for annotations[i] are written
\* back through updateAnnotationFromDisplay.
writeBack64(i) ==
    /\ LET u == getDisplayCoordinates64(annotations[i]) IN
       /\ updateAnnotationFromDisplay64(annotations[i].id, << u.x >>, << u.y >>)
       /\ last' = Event("writeBack", annotations[i].id, << u.x, u.y >>,
                        << annotations[i] >>)
    /\ UNCHANGED << file, fileData, numPages, pageNumber, scale, origin,
                    selectedId, pageDimensions, rendered, reads, parses,
                    isSpacePressed, isDraggingCanvas, dragState, nextId,
                    error, pan, dragStartRef, sinceDragEnd >>

NextF64 ==
    \/ \E i \in DOMAIN annotations, axis \in {"x", "y"}, value \in Doubles :
          steps < MaxSteps64 /\ Step(fieldEdit64(i, axis, value))
    \/ \E i \in DOMAIN annotations :
          steps < MaxSteps64 /\ Step(writeBack64(i))

SpecF64 == InitF64 /\ [][NextF64]_vars

\* --------------------------------------------------------- store handlers

\* The three handlers of the store that take an id, called with any id on
\* stores of up to StoreLen annotations: three points, ids in any order,
\* dimensions loaded or not, nothing selected, origin TOP_RIGHT.
StoreLen == 2
MaxStepsStore == 1
StoreIds == 1..MaxIds
StorePoints ==
    { [pageIndex |-> 1, x |-> Pt(100), y |-> Pt(700)],
      [pageIndex |-> 1, x |-> Pt(300), y |-> Pt(100)],
      [pageIndex |-> 2, x |-> Pt(100), y |-> Pt(100)] }
StoreTargets == { <<Pt(50), Pt(60)>>, <<Pt(-10), Pt(900)>> }
Stores ==
    UNION { { [k \in 1..n |->
                 Stored(ids[k], pts[k].pageIndex, pts[k].x, pts[k].y,
                        DocA[pts[k].pageIndex].height)] :
              ids \in { f \in [1..n -> StoreIds] :
                          \A j, k \in 1..n : f[j] = f[k] => j = k },
              pts \in [1..n -> StorePoints] } :
            n \in 0..StoreLen }

InitStore ==
    \E anns \in Stores :
        /\ file = "A"
        /\ fileData = "A"
        /\ numPages = Len(DocA)
        /\ pageNumber = 1
        /\ scale = ScaleOne
        /\ annotations = anns
        /\ sortedAnnotations \in SortOutcomes(anns)
        /\ origin = TOP_RIGHT
        /\ selectedId = NoId
        /\ pageDimensions \in {<< >>, DocA}
        /\ rendered = TRUE
        /\ reads = EmptyBag
        /\ parses = EmptyBag
        /\ isSpacePressed = FALSE
        /\ isDraggingCanvas = FALSE
        /\ dragState = << >>
        /\ nextId = MaxIds
        /\ drawn = << >>
        /\ isSaving = FALSE
        /\ error = NULL
        /\ saving = << >>
        /\ downloads = << >>
        /\ pan = << 0, 0 >>
        /\ dragStartRef = << >>
        /\ sinceDragEnd = 100
        /\ steps = 0
        /\ last = Event("init", NoId, << >>, << >>)

\* onUpdateAnnotationPosition(id, x, y), as a drag calls it.  prev of the
\* event: the store before the call.
positionUpdate(id, x, y) ==
    /\ handleUpdateAnnotationPosition(id, x, y)
    /\ last' = Event("handleUpdateAnnotationPosition", id, << x, y >>, annotations)
    /\ UNCHANGED << file, fileData, numPages, pageNumber, scale, origin,
                    selectedId, pageDimensions, rendered, reads, parses,
                    isSpacePressed, isDraggingCanvas, dragState, nextId,
                    error, pan, dragStartRef, sinceDragEnd >>

\* updateAnnotationFromDisplay(id, value, null) or (id, null, value).
displayUpdate(id, axis, text) ==
    /\ LET value == ParsedField(text) IN
       /\ IF axis = "x"
          THEN updateAnnotationFromDisplay(id, << value >>, << >>)
          ELSE updateAnnotationFromDisplay(id, << >>, << value >>)
       /\ last' = Event("updateAnnotationFromDisplay", id, << axis, value >>, annotations)
    /\ UNCHANGED << file, fileData, numPages, pageNumber, scale, origin,
                    selectedId, pageDimensions, rendered, reads, parses,
                    isSpacePressed, isDraggingCanvas, dragState, nextId,
                    error, pan, dragStartRef, sinceDragEnd >>

\* handleDeleteAnnotation(id).
delete(id) ==
    /\ handleDeleteAnnotation(id)
    /\ last' = Event("handleDeleteAnnotation", id, << selectedId >>, annotations)
    /\ UNCHANGED << file, fileData, numPages, pageNumber, scale, origin,
                    pageDimensions, rendered, reads, parses, isSpacePressed,
                    isDraggingCanvas, dragState, nextId,
                    error, pan, dragStartRef, sinceDragEnd >>

NextStore ==
    \/ \E id \in StoreIds, t \in StoreTargets :
          steps < MaxStepsStore /\ Step(positionUpdate(id, t[1], t[2]))
    \/ \E id \in StoreIds, axis \in {"x", "y"}, text \in FieldTexts :
          steps < MaxStepsStore /\ Step(displayUpdate(id, axis, text))
    \/ \E id \in StoreIds :
          steps < MaxStepsStore /\ Step(delete(id))

SpecStore == InitStore /\ [][NextStore]_vars

\* ---------------------------------------------------------- view changes

\* A document is open with annotations in the store, and the view is zoomed,
\* panned by the wheel or by a Space or middle-button drag, reset, and read
\* under another origin.
MaxStepsView == 5
ViewOrigins == {BOTTOM_LEFT, TOP_RIGHT}
InitView ==
    \E anns \in Stores :
        /\ \A k \in DOMAIN anns : anns[k].id = k
        /\ Opened("A", 1, anns)
        /\ origin = BOTTOM_LEFT

NextView ==
    \/ steps < MaxStepsView /\ Step(zoomOut)
    \/ steps < MaxStepsView /\ Step(zoomIn)
    \/ \E d \in WheelDeltas, ctrlKey \in BOOLEAN :
          steps < MaxStepsView /\ Step(handleWheel(d[1], d[2], ctrlKey))
    \/ steps < MaxStepsView /\ Step(spaceKeyDown)
    \/ steps < MaxStepsView /\ Step(spaceKeyUp)
    \/ \E middle \in BOOLEAN, c \in PanPositions :
          steps < MaxStepsView /\ Step(handleCanvasMouseDown(middle, c[1], c[2]))
    \/ \E q \in PanMoves :
          steps < MaxStepsView /\ Step(handleCanvasMouseMove(q[1], q[2]))
    \/ steps < MaxStepsView /\ Step(handleCanvasMouseUp)
    \/ steps < MaxStepsView /\ Step(handleResetView)
    \/ \E o \in ViewOrigins : steps < MaxStepsView /\ Step(setOrigin(o))

SpecView == InitView /\ [][NextView]_vars

\* ------------------------------------------------------------------- ids

\* Math.random().toString(36).slice(2) + Date.now().toString(36): the digits
\* of the random fraction followed by those of the time in milliseconds. The
\* time takes eight digits (from 1972 to 2059), so the string determines both
\* parts and is written here as the number of the pair; no pair gives NoId.
Randoms == {0, 1}
Times == {0, 1}
idExpression(random, now) == 1 + random * Cardinality(Times) + now

\* A document is open and clicks add annotations; what Math.random() and
\* Date.now() return at a click is an input of the click.
MaxStepsIds == 4
InitIds ==
    /\ Opened("A", 1, << >>)
    /\ origin = BOTTOM_LEFT

\* A click whose id expression evaluates from the given outcomes.
click(offsetX, offsetY, random, now) ==
    /\ handleClick(offsetX, offsetY, idExpression(random, now))
    /\ UNCHANGED nextId

NextIds ==
    \/ \E c \in ClickOffsets, random \in Randoms, now \in Times :
          steps < MaxStepsIds /\ Step(click(c[1], c[2], random, now))
    \/ \E i \in DOMAIN annotations, axis \in {"x", "y"}, text \in FieldTexts :
          steps < MaxStepsIds /\ Step(fieldEdit(i, axis, text))
    \/ \E i \in DOMAIN annotations : steps < MaxStepsIds /\ Step(deleteButton(i))

SpecIds == InitIds /\ [][NextIds]_vars

\* ------------------------------------------------------------ export runs

\* A document is open with annotations in the store and exports are run, with
\* edits of the store and of the origin between and during them. fileData is
\* the document shown or, when the read of an earlier selection completed
\* last, a one-page document.
MaxStepsExport == 8
ExportOrigins == {BOTTOM_LEFT, TOP_RIGHT}
InitExport ==
    \E anns \in Stores :
        /\ \A k \in DOMAIN anns : anns[k].id = k
        /\ file = "A"
        /\ fileData \in {"A", "S"}
        /\ numPages = Len(DocA)
        /\ pageNumber = 1
        /\ scale = ScaleOne
        /\ annotations = anns
        /\ sortedAnnotations \in SortOutcomes(anns)
        /\ origin \in ExportOrigins
        /\ selectedId = NoId
        /\ pageDimensions = DocPages(fileData)
        /\ rendered = TRUE
        /\ reads = EmptyBag
        /\ parses = EmptyBag
        /\ isSpacePressed = FALSE
        /\ isDraggingCanvas = FALSE
        /\ dragState = << >>
        /\ nextId = Len(anns)
        /\ drawn = << >>
        /\ isSaving = FALSE
        /\ error = NULL
        /\ saving = << >>
        /\ downloads = << >>
        /\ pan = << 0, 0 >>
        /\ dragStartRef = << >>
        /\ sinceDragEnd = 100
        /\ steps = 0
        /\ last = Event("init", NoId, << >>, << >>)

NextExport ==
    \/ steps < MaxStepsExport /\ ExportStep(handleSave)
    \/ \E k \in DOMAIN saving : steps < MaxStepsExport /\ ExportStep(loadResolved(k))
    \/ \E k \in DOMAIN saving : steps < MaxStepsExport /\ ExportStep(embedFontResolved(k))
    \/ \E k \in DOMAIN saving : steps < MaxStepsExport /\ ExportStep(saveResolved(k))
    \/ \E k \in DOMAIN saving : steps < MaxStepsExport /\ ExportStep(saveRejected(k))
    \/ \E k \in DOMAIN saving, n \in 0 .. MaxAnnotations - 1 :
          steps < MaxStepsExport /\ ExportStep(drawThrows(k, n))
    \/ \E o \in ExportOrigins : steps < MaxStepsExport /\ Step(setOrigin(o))
    \/ \E i \in DOMAIN annotations : steps < MaxStepsExport /\ Step(deleteButton(i))

SpecExport == InitExport /\ [][NextExport]_vars

\* ================================================================= claims

\* The annotations of the store with the given id.
WithId(id) == { i \in DOMAIN annotations : annotations[i].id = id }

\* The real size of the page an annotation sits on (the page of `file`).
PageOf(ann) == DocPages(file)[ann.pageIndex]

\* ------------------------------------------------- edits during an export

\* A document is open with one annotation in the store; an export is run
\* while annotations are added, dragged, edited and deleted and the origin is
\* changed.
MaxStepsDuring == 6
DuringFieldTexts == { <<Pt(50)>> }
DuringMoves == { <<408, 296>> }
InitDuring ==
    /\ Opened("A", 1, << Stored(1, 1, Pt(100), Pt(700), Pt(792)) >>)
    /\ origin = BOTTOM_LEFT

NextDuring ==
    \/ steps < MaxStepsDuring /\ ExportStep(handleSave)
    \/ \E k \in DOMAIN saving : steps < MaxStepsDuring /\ ExportStep(loadResolved(k))
    \/ \E k \in DOMAIN saving : steps < MaxStepsDuring /\ ExportStep(embedFontResolved(k))
    \/ \E k \in DOMAIN saving : steps < MaxStepsDuring /\ ExportStep(saveResolved(k))
    \/ \E k \in DOMAIN saving : steps < MaxStepsDuring /\ ExportStep(saveRejected(k))
    \/ steps < MaxStepsDuring /\ Step(setOrigin(TOP_RIGHT))
    \/ \E c \in ClickOffsets : steps < MaxStepsDuring /\ Step(clickToAdd(c[1], c[2]))
    \/ \E i \in DOMAIN annotations, p \in PressPositions :
          steps < MaxStepsDuring /\ Step(handleAnnotationMouseDown(i, p[1], p[2]))
    \/ \E q \in DuringMoves : steps < MaxStepsDuring /\ Step(handleWindowMouseMove(q[1], q[2]))
    \/ steps < MaxStepsDuring /\ Step(handleWindowMouseUp)
    \/ steps < MaxStepsDuring /\ Step(timePasses)
    \/ \E i \in DOMAIN annotations, text \in DuringFieldTexts :
          steps < MaxStepsDuring /\ Step(fieldEdit(i, "x", text))
    \/ \E i \in DOMAIN annotations : steps < MaxStepsDuring /\ Step(deleteButton(i))

SpecDuring == InitDuring /\ [][NextDuring]_vars

\* ------------------------------------------------------ selecting files

\* Files are selected and removed while reads and parses of earlier
\* selections are still running.
MaxStepsFiles == 6
SomeFiles == {"A", "S"}
NextFiles ==
    \/ \E f \in SomeFiles, type \in FileTypes :
          steps < MaxStepsFiles /\ Step(onFileChange(f, type))
    \/ \E f \in SomeFiles : steps < MaxStepsFiles /\ Step(readerOnload(f))
    \/ \E f \in SomeFiles : steps < MaxStepsFiles /\ Step(dimensionsLoaded(f))
    \/ \E f \in SomeFiles : steps < MaxStepsFiles /\ Step(dimensionsFailed(f))
    \/ steps < MaxStepsFiles /\ Step(onDocumentLoadSuccess)
    \/ steps < MaxStepsFiles /\ Step(removeFile)

SpecFiles == Init /\ [][NextFiles]_vars

\* ----------------------------------------------------------------- C1
\* C1: in every reachable state every annotation of the store has
\* displayX = x and displayY = pageHeight - y, pageHeight being the height of
\* the annotation's page, also while the page dimensions are not loaded.
C1_DisplayCacheInSync ==
    \A i \in DOMAIN annotations :
        /\ annotations[i].displayX = annotations[i].x
        /\ annotations[i].displayY = PageOf(annotations[i]).height - annotations[i].y

\* ----------------------------------------------------------------- C2
\* The state right after a drag position event for an annotation of the store.
JustDragged(i) ==
    /\ last.op = "handleWindowMouseMove"
    /\ i \in WithId(last.id)

\* C2 as claimed: after every drag position event the dragged annotation lies
\* inside its page.
C2_DragStaysInPage ==
    \A i \in DOMAIN annotations :
        JustDragged(i) =>
            /\ annotations[i].x >= 0
            /\ annotations[i].x <= PageOf(annotations[i]).width
            /\ annotations[i].y >= 0
            /\ annotations[i].y <= PageOf(annotations[i]).height

\* v brought into [0, limit].
Within(v, limit) == IF v < 0 THEN 0 ELSE IF v > limit THEN limit ELSE v

\* C2 amended: after a drag position event handled while the dimensions of
\* the page shown are held, x is the target x brought into [0, width] and y
\* the target y brought into [0, height] of the page shown, each on its own,
\* so the annotation lies inside its page when that is the page shown; a
\* target of (-10, 900) with a 612 x 792 page shown is stored as (0, 792).
C2_DragClampedWhenDimsKnown ==
    \A i \in DOMAIN annotations :
        (JustDragged(i) /\ last.args[3]) =>
            LET a == annotations[i]
                dims == pageDimensions[pageNumber]
            IN /\ HasDims(pageNumber)
               /\ a.x = Within(last.args[1], dims.width)
               /\ a.y = Within(last.args[2], dims.height)
               /\ a.x >= 0 /\ a.x <= dims.width
               /\ a.y >= 0 /\ a.y <= dims.height
               /\ a.pageIndex = pageNumber =>
                     /\ a.x <= PageOf(a).width
                     /\ a.y <= PageOf(a).height
               /\ (/\ dims = [width |-> Pt(612), height |-> Pt(792)]
                   /\ last.args[1] = Pt(-10) /\ last.args[2] = Pt(900))
                  => (a.x = 0 /\ a.y = Pt(792))

\* A drag to (-10, 900) on the 612 x 792 page, shown with its dimensions held.
C2_Witness ==
    \E i \in DOMAIN annotations :
        /\ JustDragged(i) /\ last.args[3]
        /\ last.args[1] = Pt(-10) /\ last.args[2] = Pt(900)
        /\ annotations[i].pageIndex = pageNumber
        /\ pageDimensions[pageNumber]
               = [width |-> Pt(612), height |-> Pt(792)]
        /\ annotations[i].x = 0 /\ annotations[i].y = Pt(792)

\* ----------------------------------------------------------------- C4
\* The conversion table of the specification, canonical to UserFrame.
UserFrameTable(x, y, o, dims) ==
    CASE o = BOTTOM_LEFT -> [x |-> x, y |-> y]
      [] o = TOP_LEFT -> [x |-> x, y |-> dims.height - y]
      [] o = TOP_RIGHT -> [x |-> dims.width - x, y |-> dims.height - y]
      [] o = BOTTOM_RIGHT -> [x |-> dims.width - x, y |-> y]

\* "x:<round(ux)>, y:<round(uy)>" of a UserFrame point.
TableText(u) == "x:" \o ToString(Round(u.x)) \o ", y:" \o ToString(Round(u.y))

\* The table's rows for canonical (100, 700) on a 612 x 792 page.
Example100x700(o) ==
    CASE o = BOTTOM_LEFT -> [x |-> Pt(100), y |-> Pt(700)]
      [] o = TOP_LEFT -> [x |-> Pt(100), y |-> Pt(92)]
      [] o = TOP_RIGHT -> [x |-> Pt(512), y |-> Pt(92)]
      [] o = BOTTOM_RIGHT -> [x |-> Pt(512), y |-> Pt(700)]

\* C4: with the page's dimensions known, the sidebar fields, the preview
\* label and the exported label text all give the conversion table's value
\* for the origin in force, the labels as "x:<round(ux)>, y:<round(uy)>";
\* canonical (100, 700) on a 612 x 792 page gives (100, 700), (100, 92),
\* (512, 92), (512, 700).
C4_ThreeConversionsFollowTable ==
    \A i \in DOMAIN annotations :
        LET a == annotations[i] IN
        /\ HasDims(a.pageIndex) =>
             LET dims == pageDimensions[a.pageIndex] IN
             /\ getDisplayCoordinates(a) = UserFrameTable(a.x, a.y, origin, dims)
             /\ (/\ dims = [width |-> Pt(612), height |-> Pt(792)]
                 /\ a.x = Pt(100) /\ a.y = Pt(700))
                => getDisplayCoordinates(a) = Example100x700(origin)
        /\ (a.pageIndex = pageNumber /\ HasDims(pageNumber)) =>
             getLabelText(a)
                = TableText(UserFrameTable(a.x, a.y, origin, pageDimensions[pageNumber]))
        /\ (fileData # NULL /\ a.pageIndex <= Len(DocPages(fileData))) =>
             LET size == DocPages(fileData)[a.pageIndex] IN
             saveText(a, size.width, size.height, origin)
                = TableText(UserFrameTable(a.x, a.y, origin, size))

\* Canonical (100, 700) on the 612 x 792 page, shown and exportable, with the
\* origin at the top right: all three places give (512, 92).
C4_Witness ==
    \E i \in DOMAIN annotations :
        LET a == annotations[i] IN
        /\ a.x = Pt(100) /\ a.y = Pt(700)
        /\ a.pageIndex = pageNumber /\ HasDims(pageNumber)
        /\ pageDimensions[pageNumber] = [width |-> Pt(612), height |-> Pt(792)]
        /\ fileData # NULL
        /\ origin = TOP_RIGHT
        /\ getDisplayCoordinates(a) = [x |-> Pt(512), y |-> Pt(92)]
        /\ getLabelText(a) = "x:512, y:92"
        /\ saveText(a, Pt(612), Pt(792), origin) = "x:512, y:92"

\* ----------------------------------------------------------------- C5
\* Annotation i is the one the last export pass drew.
JustDrawn(i) == last.op = "saveAnnotatedPdf" /\ i \in WithId(last.id)

\* The label box as drawn: the horizontal rectangle spans its width from its
\* left edge, the vertical rectangle its height from its bottom edge.
DrawnBox ==
    [x |-> drawn[2].args[1], y |-> drawn[3].args[2],
     w |-> drawn[2].args[3], h |-> drawn[3].args[4]]

\* The size of the page of the parsed document an annotation is drawn on.
ExportPage(ann) == DocPages(fileData)[ann.pageIndex]

\* C5: the exported label box has its origin at (x + r, y + r) unless
\* x + r + boxW > pageWidth, which alone moves boxX to x - r - boxW, or
\* y + r + boxH > pageHeight, which alone moves boxY to y - r - boxH; on a
\* 612 x 792 page with r = 3 and a 40 x 20 box the marker (600, 700) gets
\* the box origin (557, 703), and (600, 790) gets both flips.
C5_FlipRulePerAxis ==
    \A i \in DOMAIN annotations : JustDrawn(i) =>
        LET a == annotations[i]
            r == Pt(3)
            boxW == last.args[1] + Pt(4)
            boxH == last.args[2] + Pt(4)
            page == ExportPage(a)
        IN /\ DrawnBox.w = boxW
           /\ DrawnBox.h = boxH
           /\ (a.x + r + boxW > page.width) => DrawnBox.x = a.x - r - boxW
           /\ ~(a.x + r + boxW > page.width) => DrawnBox.x = a.x + r
           /\ (a.y + r + boxH > page.height) => DrawnBox.y = a.y - r - boxH
           /\ ~(a.y + r + boxH > page.height) => DrawnBox.y = a.y + r
           /\ (/\ page = [width |-> Pt(612), height |-> Pt(792)]
               /\ boxW = Pt(40) /\ boxH = Pt(20) /\ a.x = Pt(600))
              => /\ a.y = Pt(700) => (DrawnBox.x = Pt(557) /\ DrawnBox.y = Pt(703))
                 /\ a.y = Pt(790) => (DrawnBox.x = Pt(557) /\ DrawnBox.y = Pt(767))

\* The marker (600, 700) drawn on the 612 x 792 page with a 40 x 20 box: the
\* box sits at (557, 703), flipped horizontally only.
C5_Witness ==
    \E i \in DOMAIN annotations :
        /\ JustDrawn(i)
        /\ ExportPage(annotations[i]) = [width |-> Pt(612), height |-> Pt(792)]
        /\ annotations[i].x = Pt(600) /\ annotations[i].y = Pt(700)
        /\ last.args = <<Pt(36), Pt(16)>>
        /\ DrawnBox = [x |-> Pt(557), y |-> Pt(703), w |-> Pt(40), h |-> Pt(20)]

\* ----------------------------------------------------------------- C6
\* The marker of annotation a lies on its page.
MarkerInPage(a) ==
    /\ 0 <= a.x /\ a.x <= ExportPage(a).width
    /\ 0 <= a.y /\ a.y <= ExportPage(a).height

\* C6 as stated: for every marker inside the page and every box size the
\* drawn label box lies entirely inside the page.
C6_BoxInsidePage ==
    \A i \in DOMAIN annotations : (JustDrawn(i) /\ MarkerInPage(annotations[i])) =>
        LET page == ExportPage(annotations[i]) IN
        /\ 0 <= DrawnBox.x /\ DrawnBox.x + DrawnBox.w <= page.width
        /\ 0 <= DrawnBox.y /\ DrawnBox.y + DrawnBox.h <= page.height

\* C6: for every marker inside the page the drawn label box never crosses
\* the right or the top edge of the page, and it stays clear of the left
\* edge when pageWidth >= 2 * (r + boxW) and of the bottom edge when
\* pageHeight >= 2 * (r + boxH); then it lies entirely inside the page.
C6_BoxInsideLargeEnoughPage ==
    \A i \in DOMAIN annotations : (JustDrawn(i) /\ MarkerInPage(annotations[i])) =>
        LET page == ExportPage(annotations[i])
            r == Pt(3)
        IN /\ DrawnBox.x + DrawnBox.w <= page.width
           /\ DrawnBox.y + DrawnBox.h <= page.height
           /\ page.width >= 2 * (r + DrawnBox.w) => 0 <= DrawnBox.x
           /\ page.height >= 2 * (r + DrawnBox.h) => 0 <= DrawnBox.y

\* A marker near the top right corner of a page large enough for its box:
\* both axes are flipped and the box is inside the page.
C6_Witness ==
    \E i \in DOMAIN annotations :
        LET a == annotations[i]
            page == ExportPage(a)
        IN /\ JustDrawn(i) /\ MarkerInPage(a)
           /\ page.width >= 2 * (Pt(3) + DrawnBox.w)
           /\ page.height >= 2 * (Pt(3) + DrawnBox.h)
           /\ DrawnBox.x < a.x /\ DrawnBox.y < a.y
           /\ 0 <= DrawnBox.x /\ DrawnBox.x + DrawnBox.w <= page.width
           /\ 0 <= DrawnBox.y /\ DrawnBox.y + DrawnBox.h <= page.height

RuleBefore(a, b) ==
    IF a.y - b.y > Pt(2) \/ b.y - a.y > Pt(2) THEN a.y > b.y ELSE a.x < b.x

\* The positions of sortedAnnotations holding two annotations of one page.
SamePagePairs ==
    { pr \in (DOMAIN sortedAnnotations) \X (DOMAIN sortedAnnotations) :
        /\ pr[1] < pr[2]
        /\ sortedAnnotations[pr[1]].pageIndex = sortedAnnotations[pr[2]].pageIndex }

\* C8 as stated: any two annotations of a page are listed in the order the
\* pairwise rule gives them, whatever else is in the store.
C8_EveryPairFollowsRule ==
    \A pr \in SamePagePairs :
        ~RuleBefore(sortedAnnotations[pr[2]], sortedAnnotations[pr[1]])

\* The pairwise rule puts the annotations of the store in one order: "not
\* after" is transitive among the annotations of each page.
RuleIsAnOrder ==
    \A i, j, k \in DOMAIN annotations :
        LET a == annotations[i]
            b == annotations[j]
            c == annotations[k]
        IN (/\ a.pageIndex = b.pageIndex /\ b.pageIndex = c.pageIndex
            /\ ~RuleBefore(b, a) /\ ~RuleBefore(c, b))
           => ~RuleBefore(c, a)

\* The store holds exactly the three points of the example, in this order.
ExampleStore ==
    /\ Len(annotations) = 3
    /\ \A k \in 1..3 : annotations[k].pageIndex = 1
    /\ <<annotations[1].x, annotations[1].y>> = <<Pt(50), Pt(700)>>
    /\ <<annotations[2].x, annotations[2].y>> = <<Pt(10), Pt(700) + Half>>
    /\ <<annotations[3].x, annotations[3].y>> = <<Pt(5), Pt(650)>>

\* C8: two annotations of a page that are neighbours in sortedAnnotations are
\* always listed in the order of the pairwise rule, and any two annotations
\* of a page are whenever the rule puts the annotations of the store in one
\* order (it need not: with the 2-point tolerance three points can each be
\* before the next in a cycle); y = 700, 700.5, 650 with x = 50, 10, 5 is
\* listed as (10, 700.5), (50, 700), (5, 650).
C8_PairsFollowRuleWhenItIsAnOrder ==
    /\ \A pr \in SamePagePairs :
          (pr[2] = pr[1] + 1 \/ RuleIsAnOrder)
          => ~RuleBefore(sortedAnnotations[pr[2]], sortedAnnotations[pr[1]])
    /\ ExampleStore =>
          sortedAnnotations = <<annotations[2], annotations[1], annotations[3]>>

\* The example store, listed row by row.
C8_Witness ==
    /\ ExampleStore
    /\ RuleIsAnOrder
    /\ sortedAnnotations = <<annotations[2], annotations[1], annotations[3]>>

\* ----------------------------------------------------------------- C9
\* C9: sortedAnnotations holds each stored annotation as often as the store
\* does, its pageIndex never decreases from one entry to the next, and the
\* store keeps its insertion order (ids are handed out in insertion order).
C9_SortedIsPermutationByPage ==
    /\ Len(sortedAnnotations) = Len(annotations)
    /\ \A k \in DOMAIN annotations :
          Cardinality({ j \in DOMAIN sortedAnnotations : sortedAnnotations[j] = annotations[k] })
            = Cardinality({ j \in DOMAIN annotations : annotations[j] = annotations[k] })
    /\ \A k \in 1..(Len(sortedAnnotations) - 1) :
          sortedAnnotations[k].pageIndex <= sortedAnnotations[k + 1].pageIndex
    /\ \A k \in 1..(Len(annotations) - 1) : annotations[k].id < annotations[k + 1].id

\* After a delete, a store whose page-2 annotation was inserted first is
\* listed with page 1 first while the store still has the page-2 one first.
C9_Witness ==
    /\ last.op = "handleDeleteAnnotation"
    /\ Len(annotations) = 2
    /\ annotations[1].pageIndex = 2 /\ annotations[2].pageIndex = 1
    /\ sortedAnnotations = <<annotations[2], annotations[1]>>

\* ----------------------------------------------------------------- C3
\* The origin in force measures the axis from the far edge of the page.
Flipped(axis) ==
    IF axis = "x" THEN origin \in {TOP_RIGHT, BOTTOM_RIGHT}
    ELSE origin \in {TOP_LEFT, TOP_RIGHT}

Component(point, axis) == IF axis = "x" THEN point.x ELSE point.y

\* The extent of the page of ann along the axis, as the application holds it.
Extent(ann, axis) ==
    IF axis = "x" THEN pageDimensions[ann.pageIndex].width
    ELSE pageDimensions[ann.pageIndex].height

\* 0 <= v <= limit.
InPage64(v, limit) == ~v.neg /\ LessEq64(v, limit)

\* Annotation i has just had its UserFrame value written back.
JustWrittenBack(i) == last.op = "writeBack" /\ i \in WithId(last.id)

\* C3 as stated: writing both components of getDisplayCoordinates back
\* through updateAnnotationFromDisplay restores the canonical point exactly.
C3_RoundTripExact ==
    \A i \in DOMAIN annotations : JustWrittenBack(i) =>
        /\ annotations[i].x = last.prev[1].x
        /\ annotations[i].y = last.prev[1].y

\* C3: the round trip restores a canonical component exactly on an axis the
\* origin does not flip and on a flipped axis whose subtraction from the
\* page extent is exact in double precision; for a component inside the
\* page it restores it to within one unit in the last place of the extent.
C3_RoundTripUpToRounding ==
    \A i \in DOMAIN annotations : JustWrittenBack(i) =>
        \A axis \in {"x", "y"} :
            LET p == Component(last.prev[1], axis)
                q == Component(annotations[i], axis)
                d == Extent(annotations[i], axis)
            IN /\ (~Flipped(axis) \/ SubIsExact(d, p)) => q = p
               /\ InPage64(p, d) => WithinUlp(q, p, d)

\* Canonical (100.5, 700) on the 612 x 792 page under TOP_RIGHT: written back
\* as (511.5, 92), it is (100.5, 700) again.
C3_Witness ==
    \E i \in DOMAIN annotations :
        /\ JustWrittenBack(i)
        /\ origin = TOP_RIGHT
        /\ pageDimensions[annotations[i].pageIndex] = DocF[1]
        /\ last.args = << Dbl(FALSE, 130944, 0, 0), Dbl(FALSE, 23552, 0, 0) >>
        /\ last.prev[1].x = Dbl(FALSE, 25728, 0, 0)
        /\ last.prev[1].y = Dbl(FALSE, 179200, 0, 0)
        /\ annotations[i].x = last.prev[1].x
        /\ annotations[i].y = last.prev[1].y

\* ---------------------------------------------------------------- C10
\* Annotation i has just received a field value.
JustEdited(i) == last.op = "updateAnnotationFromDisplay" /\ i \in WithId(last.id)

OtherAxis(axis) == IF axis = "x" THEN "y" ELSE "x"

\* The field edit stored the origin's formula of the value, unclamped, on the
\* edited axis and left the other axis as it was.
EditStoredFormula(i) ==
    LET axis == last.args[1]
        v == last.args[2]
        d == Extent(annotations[i], axis)
    IN /\ Component(annotations[i], axis) = (IF Flipped(axis) THEN Sub64(d, v) ELSE v)
       /\ Component(annotations[i], OtherAxis(axis)) = Component(last.prev[1], OtherAxis(axis))

\* C10 as stated: after a field edit with known page dimensions the edited
\* axis holds the unclamped formula, the other axis is unchanged, and the
\* UserFrame value of the edited axis equals the supplied value.
C10_FieldShowsSuppliedValue ==
    \A i \in DOMAIN annotations : JustEdited(i) =>
        /\ EditStoredFormula(i)
        /\ Component(getDisplayCoordinates64(annotations[i]), last.args[1]) = last.args[2]

\* C10: after a field edit with known page dimensions the edited axis holds
\* the unclamped formula (also outside the page) and the other axis is
\* unchanged; the UserFrame value of the edited axis equals the supplied
\* value when the origin does not flip the axis or the subtraction from the
\* page extent is exact in double precision, and for a value between 0 and
\* the extent it is within one unit in the last place of the extent.
C10_FieldEditUnclamped ==
    \A i \in DOMAIN annotations : JustEdited(i) =>
        LET axis == last.args[1]
            v == last.args[2]
            d == Extent(annotations[i], axis)
            shown == Component(getDisplayCoordinates64(annotations[i]), axis)
        IN /\ EditStoredFormula(i)
           /\ (~Flipped(axis) \/ SubIsExact(d, v)) => shown = v
           /\ InPage64(v, d) => WithinUlp(shown, v, d)

\* The X field of a marker on the 612 x 792 page receives -5 under TOP_RIGHT:
\* canonical x becomes 617, right of the page, and the field value is -5.
C10_Witness ==
    \E i \in DOMAIN annotations :
        /\ JustEdited(i)
        /\ origin = TOP_RIGHT
        /\ pageDimensions[annotations[i].pageIndex] = DocF[1]
        /\ last.args = << "x", Dbl(TRUE, 1280, 0, 0) >>
        /\ annotations[i].x = Dbl(FALSE, 157952, 0, 0)
        /\ annotations[i].y = last.prev[1].y
        /\ getDisplayCoordinates64(annotations[i]).x = Dbl(TRUE, 1280, 0, 0)

\* ---------------------------------------------------------------- C11
\* C11: while the dimensions of an annotation's page are unknown, the sidebar
\* fields give its canonical (x, y) under every origin, and the preview
\* label of an annotation on the shown page gives the rounded canonical
\* (x, y).
C11_UnknownDimsFallBackToCanonical ==
    \A i \in DOMAIN annotations :
        LET a == annotations[i] IN
        /\ ~HasDims(a.pageIndex) => getDisplayCoordinates(a) = [x |-> a.x, y |-> a.y]
        /\ (a.pageIndex = pageNumber /\ ~HasDims(pageNumber)) =>
             getLabelText(a) = "x:" \o ToString(Round(a.x)) \o ", y:" \o ToString(Round(a.y))

\* A marker at (100, 700) placed before the dimensions arrived, with the
\* origin at the top right: fields and label still say (100, 700).
C11_Witness ==
    \E i \in DOMAIN annotations :
        LET a == annotations[i] IN
        /\ origin = TOP_RIGHT
        /\ a.pageIndex = pageNumber /\ ~HasDims(pageNumber)
        /\ a.x = Pt(100) /\ a.y = Pt(700)
        /\ getDisplayCoordinates(a) = [x |-> Pt(100), y |-> Pt(700)]
        /\ getLabelText(a) = "x:100, y:700"

\* ---------------------------------------------------------------- C12
\* The last call was one of the store's handlers that take an id; prev of the
\* event is the store before the call.
StoreCall ==
    last.op \in {"handleUpdateAnnotationPosition", "updateAnnotationFromDisplay",
                 "handleDeleteAnnotation"}

\* No annotation of the list anns has the id.
Absent(id, anns) == \A k \in DOMAIN anns : anns[k].id # id

\* C12: a position update, a field update or a delete whose id no annotation
\* of the store has leaves the store as it was: the same annotations in the
\* same order.
C12_UnknownIdIsNoOp ==
    (StoreCall /\ Absent(last.id, last.prev)) => annotations = last.prev

\* A position update for an id that is gone arrived at a store of two
\* annotations, whose page dimensions are known, and changed nothing.
C12_Witness ==
    /\ last.op = "handleUpdateAnnotationPosition"
    /\ Absent(last.id, last.prev)
    /\ Len(last.prev) = 2
    /\ \A k \in DOMAIN last.prev : HasDims(last.prev[k].pageIndex)
    /\ annotations = last.prev

\* ---------------------------------------------------------------- C13
\* The last handler was a delete (button or key); the event holds the id,
\* what was selected before, and the store before.
JustDeleted == last.op = "handleDeleteAnnotation"

\* C13: a delete removes the annotation with the id and nothing else, the
\* others keep their order, and the selection is cleared if it was the
\* deleted id and is what it was otherwise.
C13_DeleteRemovesExactlyThatId ==
    JustDeleted =>
        /\ annotations = SelectSeq(last.prev, LAMBDA a : a.id # last.id)
        /\ ~Absent(last.id, last.prev) => Len(annotations) = Len(last.prev) - 1
        /\ selectedId = (IF last.args[1] = last.id THEN NoId ELSE last.args[1])
        /\ selectedId # last.id

\* The first of two annotations is deleted by its button while the second is
\* selected: the second is all that is left, still selected.
C13_Witness ==
    /\ JustDeleted
    /\ Len(last.prev) = 2
    /\ last.id = last.prev[1].id
    /\ last.args = << last.prev[2].id >>
    /\ annotations = << last.prev[2] >>
    /\ selectedId = last.prev[2].id

\* ---------------------------------------------------------------- C14

\* An export has just completed: its record and the file it produced.
JustExported == last.op = "saveAnnotatedPdf" /\ Len(last.args) = 1
Exported == last.args[1]
Produced == downloads[Len(downloads)]

\* The j-th group of calls of a drawing pass (j from 0) is the drawing of
\* annotation a: the marker disc of radius 3 at (x, y), two rectangles, four
\* corner discs and one text, all on page a.pageIndex.
DrawsAnnotation(draws, j, a) ==
    /\ 8 * j + 8 <= Len(draws)
    /\ draws[8 * j + 1] =
           Draw("drawCircle", a.pageIndex, "", << a.x, a.y, Pt(3) >>)
    /\ \A n \in {2, 3} : draws[8 * j + n].op = "drawRectangle"
    /\ \A n \in 4 .. 7 : /\ draws[8 * j + n].op = "drawCircle"
                         /\ draws[8 * j + n].args[3] = Pt(3)
    /\ draws[8 * j + 8].op = "drawText" /\ draws[8 * j + 8].text # ""
    /\ \A n \in 1 .. 8 : draws[8 * j + n].page = a.pageIndex

\* The drawing pass consists of one drawing for each annotation of anns at
\* the positions I, and of nothing else.
DrawnExactlyOnce(anns, I, draws) ==
    /\ Len(draws) = 8 * Cardinality(I)
    /\ \A i \in I :
          Cardinality({ j \in 0 .. Len(anns) - 1 : DrawsAnnotation(draws, j, anns[i]) })
          = Cardinality({ k \in I : /\ anns[k].pageIndex = anns[i].pageIndex
                                    /\ anns[k].x = anns[i].x
                                    /\ anns[k].y = anns[i].y })

\* C14: a successful export draws every annotation of the list passed to it
\* exactly once (marker disc of radius 3 at (x, y), label box of two
\* rectangles and four corner discs, one text) on page pageIndex, and skips
\* none. The exporter skips, without an error, an annotation whose pageIndex
\* is not a page of the document parsed from the bytes, which happens when
\* fileData is not the document shown.
C14_EveryAnnotationDrawn ==
    JustExported =>
        DrawnExactlyOnce(Exported.annotations, DOMAIN Exported.annotations,
                         Produced.draws)

\* ---------------------------------------------------------------- C15

\* An export has just failed: its record, with the stage it failed in.
JustFailed == last.op = "saveAnnotatedPdf" /\ Len(last.args) = 2

\* C15: an export that fails in any stage (parsing, font embedding, drawing,
\* serializing) ends with the one failure 'Failed to save annotated PDF.',
\* the UI shows one error message and no file is emitted; a file is emitted
\* only by an export whose pages were all drawn and whose serialization was
\* awaited, and it carries those drawings.
C15_FailureEmitsNothing ==
    [][ /\ (last' # last /\ last'.op = "saveAnnotatedPdf" /\ Len(last'.args) = 2) =>
              /\ last'.args[2] = "Failed to save annotated PDF."
              /\ error' = "Failed to save the PDF. Please try again."
              /\ downloads' = downloads
              /\ Len(saving') = Len(saving) - 1
        /\ downloads' # downloads =>
              \E k \in DOMAIN saving :
                  /\ saving[k].stage = "save"
                  /\ saving[k].draws =
                         saveAnnotatedPdfDraws(saving[k].originalPdfBytes,
                                               saving[k].annotations,
                                               saving[k].origin)
                  /\ Len(downloads') = Len(downloads) + 1
                  /\ downloads'[Len(downloads')].draws = saving[k].draws
                  /\ last'.op = "saveAnnotatedPdf" /\ Len(last'.args) = 1
      ]_vars

\* The serialization of an export whose pages were drawn failed: the message
\* is shown and nothing was downloaded.
C15_Witness ==
    /\ JustFailed
    /\ last.args[1].stage = "save"
    /\ last.args[1].draws # << >>
    /\ error = "Failed to save the PDF. Please try again."
    /\ downloads = << >>
    /\ pan = << 0, 0 >>
    /\ dragStartRef = << >>
    /\ sinceDragEnd = 100
    /\ ~isSaving

\* ---------------------------------------------------------------- C16

\* The step is a step of an export.
ExportEvent(e) ==
    e.op \in {"handleSave", "PDFDocument.load", "embedFont", "saveAnnotatedPdf"}

\* C16: no step of an export changes fileData, the annotation list or the
\* origin, and the file an export produces is the document parsed from the
\* bytes passed to it with the drawings of that export only, whatever was
\* exported before.
C16_ExportLeavesInputsAlone ==
    [][ /\ (last' # last /\ ExportEvent(last')) =>
              /\ fileData' = fileData
              /\ annotations' = annotations
              /\ origin' = origin
        /\ downloads' # downloads =>
              LET e == last'.args[1]
                  d == downloads'[Len(downloads')]
              IN /\ d.originalPdfBytes = e.originalPdfBytes
                 /\ d.draws = saveAnnotatedPdfDraws(e.originalPdfBytes,
                                                    e.annotations, e.origin)
      ]_vars

\* A second export of the same store completed after a first one: both files
\* carry the same drawings.
C16_Witness ==
    /\ JustExported
    /\ Len(downloads) = 2
    /\ downloads[1].draws # << >>
    /\ downloads[2] = downloads[1]
    /\ fileData = Exported.originalPdfBytes
    /\ annotations = Exported.annotations

\* ---------------------------------------------------------------- C17

\* The first call of each drawing of a pass (the marker disc), in order.
RECURSIVE Markers(_)
Markers(draws) ==
    IF Len(draws) < 8 THEN << >>
    ELSE << draws[1] >> \o Markers(SubSeq(draws, 9, Len(draws)))

\* The marker disc of annotation a.
MarkerOf(a) == Draw("drawCircle", a.pageIndex, "", << a.x, a.y, Pt(DOT_RADIUS) >>)

\* The annotations of anns that are on pages 1 .. n, page by page in ascending
\* order and in list order within a page.
RECURSIVE ByPageInListOrder(_, _)
ByPageInListOrder(anns, n) ==
    IF n = 0 THEN << >>
    ELSE ByPageInListOrder(anns, n - 1)
         \o SelectSeq(anns, LAMBDA a : a.pageIndex = n)

\* C17: two exports called with the same bytes, annotations and origin issue
\* the same sequence of draw calls with the same arguments, and the calls of
\* an export go page by page in ascending page number and, within a page, in
\* the order of the list.
C17_ExportDeterministic ==
    /\ \A i, j \in DOMAIN downloads :
          (/\ downloads[i].originalPdfBytes = downloads[j].originalPdfBytes
           /\ downloads[i].annotations = downloads[j].annotations
           /\ downloads[i].origin = downloads[j].origin)
          => downloads[i].draws = downloads[j].draws
    /\ \A i \in DOMAIN downloads :
          LET d == downloads[i]
              order == ByPageInListOrder(d.annotations,
                                         Len(DocPages(d.originalPdfBytes)))
          IN Markers(d.draws) = [k \in DOMAIN order |-> MarkerOf(order[k])]

\* Two exports of the same two-page store, whose first annotation is on
\* page 2, completed: page 1 was drawn first, both times.
C17_Witness ==
    /\ Len(downloads) = 2
    /\ downloads[1].annotations = downloads[2].annotations
    /\ downloads[1].origin = downloads[2].origin
    /\ Len(downloads[1].annotations) = 2
    /\ downloads[1].annotations[1].pageIndex = 2
    /\ downloads[1].annotations[2].pageIndex = 1
    /\ Len(downloads[2].draws) = 16
    /\ downloads[2].draws[1].page = 1

\* ---------------------------------------------------------------- C18

\* C18: no step changes the id or the pageIndex of an annotation that stays
\* in the list; a drag update and a field edit keep the length and the order
\* of the list, change nothing but x, y, displayX and displayY, and change
\* these only in the annotation whose id they were given.
C18_IdAndPageNeverChange ==
    [][ /\ \A i \in DOMAIN annotations, j \in DOMAIN annotations' :
              annotations'[j].id = annotations[i].id =>
                  annotations'[j].pageIndex = annotations[i].pageIndex
        /\ (/\ last' # last
            /\ last'.op \in {"handleWindowMouseMove", "updateAnnotationFromDisplay"}) =>
              /\ Len(annotations') = Len(annotations)
              /\ \A i \in DOMAIN annotations :
                    /\ annotations'[i].id = annotations[i].id
                    /\ annotations'[i].pageIndex = annotations[i].pageIndex
                    /\ annotations[i].id # last'.id => annotations'[i] = annotations[i]
      ]_vars

\* A marker on page 2 was dragged to a new position while another annotation
\* is in the list.
C18_Witness ==
    /\ last.op = "handleWindowMouseMove"
    /\ \E i \in WithId(last.id) : annotations[i].pageIndex = 2
    /\ pageNumber = 2
    /\ Len(annotations) = 2
    /\ \E i \in DOMAIN annotations : annotations[i].pageIndex = 1

\* ---------------------------------------------------------------- C19

\* The events of a view change: zoom, wheel, the keys and pointer events of a
\* pan drag, reset, origin change.
ViewEvent(e) ==
    e.op \in {"zoomIn", "zoomOut", "handleWheel", "handleKeyDown", "handleKeyUp",
              "handleCanvasMouseDown", "handleCanvasMouseMove",
              "handleCanvasMouseUp", "handleResetView", "setOrigin"}

\* C19: zooming, panning by the wheel or by a pan drag, resetting the view
\* and changing the origin leave the list of annotations as it was: every
\* annotation keeps its x, y, displayX, displayY, id and pageIndex.
C19_ViewChangesLeaveAnnotations ==
    [][ (last' # last /\ ViewEvent(last')) => annotations' = annotations ]_vars

\* Two annotations are in the store, and the view was zoomed, put under
\* another origin and panned by a drag.
C19_Witness ==
    /\ last.op = "handleCanvasMouseMove"
    /\ pan # << 0, 0 >>
    /\ scale # ScaleOne
    /\ origin = TOP_RIGHT
    /\ Len(annotations) = 2

\* ---------------------------------------------------------------- C20

\* C20: no two annotations of the list share an id: every add appends an
\* annotation whose id differs from the ids of all annotations present, and
\* no other operation introduces a duplicate.
C20_IdsDistinct ==
    \A i, j \in DOMAIN annotations :
        annotations[i].id = annotations[j].id => i = j

\* ---------------------------------------------------------------- C21

\* C21: while the pan mode is active (Space held or a canvas drag in
\* progress) a click adds no annotation and a mouse-down on a marker neither
\* selects it, nor starts a drag, nor moves it; a step that adds an annotation
\* is taken outside the pan mode only.
C21_PanModeBlocksMarkers ==
    [][ /\ (isPanning /\ last' # last
            /\ last'.op \in {"handleClick", "handleAnnotationMouseDown"}) =>
              /\ annotations' = annotations
              /\ selectedId' = selectedId
              /\ dragState' = dragState
        /\ Len(annotations') > Len(annotations) => ~isPanning
      ]_vars

\* Space is held and the marker of an annotation that is not selected was
\* pressed: nothing is selected and no drag has started.
C21_Witness ==
    /\ last.op = "handleAnnotationMouseDown"
    /\ isSpacePressed
    /\ last.id \in { annotations[i].id : i \in DOMAIN annotations }
    /\ selectedId = NoId
    /\ dragState = << >>

\* ---------------------------------------------------------------- C22

\* The step is a pointer move of a marker drag.
MoveStep == steps' # steps /\ last'.op = "handleWindowMouseMove"

\* C22: a marker press records the pointer position and the canonical
\* position of the annotation, only a press, the release and the removal of
\* the file write the record, and every pointer move of the drag sets the
\* annotation to the recorded position plus (dx / scale, -dy / scale) for the
\* offset (dx, dy) of the pointer from the recorded one, clamped into the
\* page shown when its dimensions are known; nothing else of the store
\* changes, so the store after a move depends on that move alone and a
\* repeated move changes nothing.
C22_DragFollowsLatestEvent ==
    [][ /\ (last' # last /\ last'.op = "handleAnnotationMouseDown"
            /\ dragState' # dragState) =>
              \E i \in DOMAIN annotations :
                  /\ annotations[i].id = last'.id
                  /\ dragState'[1].id = last'.id
                  /\ dragState'[1].initialPdfX = annotations[i].x
                  /\ dragState'[1].initialPdfY = annotations[i].y
        /\ dragState' # dragState =>
              last'.op \in {"handleAnnotationMouseDown", "handleWindowMouseUp",
                            "removeFile"}
        /\ MoveStep =>
              LET d == dragState[1]
                  dx == last'.args[4] - d.startX
                  dy == last'.args[5] - d.startY
                  known == pageNumber \in DOMAIN pageDimensions
                  toX == d.initialPdfX + DivScale(Pt(dx), scale)
                  toY == d.initialPdfY - DivScale(Pt(dy), scale)
                  newX == IF known THEN Within(toX, pageDimensions[pageNumber].width)
                          ELSE toX
                  newY == IF known THEN Within(toY, pageDimensions[pageNumber].height)
                          ELSE toY
              IN /\ Len(annotations') = Len(annotations)
                 /\ \A i \in DOMAIN annotations :
                       IF annotations[i].id # d.id
                       THEN annotations'[i] = annotations[i]
                       ELSE /\ annotations'[i].x = newX
                            /\ annotations'[i].y = newY
                            /\ annotations'[i].displayX = newX
                            /\ annotations'[i].displayY =
                                   (IF annotations[i].pageIndex \in DOMAIN pageDimensions
                                    THEN pageDimensions[annotations[i].pageIndex].height
                                         - newY
                                    ELSE annotations[i].displayY)
                 /\ (last.op = "handleWindowMouseMove" /\ last' = last) =>
                        annotations' = annotations
      ]_vars

\* A drag has moved its annotation away from where the press found it, and
\* the last move, 8 pixels right of and 4 above the press, has put it 8 to
\* the right of and 4 above that position.
C22_Witness ==
    /\ last.op = "handleWindowMouseMove"
    /\ last.args[4] = 408 /\ last.args[5] = 296
    /\ dragState # << >>
    /\ scale = ScaleOne
    /\ \E i \in WithId(last.id) :
          /\ annotations[i].x = dragState[1].initialPdfX + Pt(8)
          /\ annotations[i].y = dragState[1].initialPdfY + Pt(4)

\* ---------------------------------------------------------------- C23

\* C23: in every reachable state selectedId is null or the id of an
\* annotation of the store.
C23_SelectedIdInStore ==
    selectedId = NoId \/ \E i \in DOMAIN annotations : annotations[i].id = selectedId

\* ---------------------------------------------------------------- C24

\* C24: an export takes the bytes, the annotation list and the origin as
\* they are when it is started, keeps them while it is suspended, and draws
\* from them alone, whatever was added, moved, edited, removed or set as
\* origin in between.
C24_ExportDrawsItsSnapshot ==
    [][ /\ (steps' # steps /\ last'.op = "handleSave") =>
              LET e == saving'[Len(saving')]
              IN /\ e.originalPdfBytes = fileData
                 /\ e.annotations = annotations
                 /\ e.origin = origin
        /\ \A k \in DOMAIN saving :
              (Len(saving') = Len(saving)) =>
                  /\ saving'[k].originalPdfBytes = saving[k].originalPdfBytes
                  /\ saving'[k].annotations = saving[k].annotations
                  /\ saving'[k].origin = saving[k].origin
        /\ (steps' # steps /\ last'.op = "embedFont") =>
              LET e == saving[last'.args[1]]
              IN drawn' = saveAnnotatedPdfDraws(e.originalPdfBytes, e.annotations,
                                                e.origin)
      ]_vars

\* An export has drawn its one annotation under the origin it was started
\* with, while the store now holds two annotations, the first of them moved,
\* and the origin is another one.
C24_Witness ==
    /\ last.op = "embedFont"
    /\ Len(drawn) = 8
    /\ Len(annotations) = 2
    /\ annotations[1] # saving[last.args[1]].annotations[1]
    /\ origin # saving[last.args[1]].origin

\* ---------------------------------------------------------------- C25

\* C25: the bytes and the page dimensions the application holds are those of
\* the file that is selected: without a file there are no bytes, and with a
\* file the bytes, once read, and the dimensions, once parsed, are that
\* file's.
C25_DataBelongsToFile ==
    /\ fileData # NULL => fileData = file
    /\ (file # NULL /\ pageDimensions # << >>) => pageDimensions = DocPages(file)

\* ---------------------------------------------------------------- C26

\* C26: at most one export is in flight at any time, and the saving flag is
\* set exactly while one is: from its start until it has finished or failed
\* the Download action starts no other, and the flag is clear again after a
\* success as well as after a failure.
C26_OneExportInFlight ==
    /\ Len(saving) <= 1
    /\ isSaving <=> saving # << >>

\* After one export has failed and another has produced its file, a third
\* one is in flight with the flag set.
C26_Witness ==
    /\ isSaving
    /\ Len(saving) = 1
    /\ error # NULL
    /\ Len(downloads) = 1

====
